---- MODULE Spec2Model ----
(***************************************************************************)
(* A model of jobbergate: the applications REST resource (routers.py over  *)
(* applications_table, the object store and the job_scripts /              *)
(* job_submissions foreign keys), the job-script-template services         *)
(* (service.py), the parameter merge of the CLI's job-script creation and  *)
(* the CLI's token cache and command wrapper (main.py).                    *)
(***************************************************************************)
EXTENDS Integers, Sequences, FiniteSets, TLC

VARIABLES
    applications,           \* rows of applications_table
    app_seq,                \* last value handed out by the applications id sequence
    now,                    \* the database clock, func.now()
    s3,                     \* objects of the application tarball store (s3man)
    job_scripts,            \* rows of job_scripts: id, application_id
    job_submissions,        \* rows of job_submissions: id, job_script_id
    last,                   \* the last request handled: op, id, status, detail
    response,               \* rows carried by the body of the last response
    job_script_templates,   \* rows of the job_script_templates table
    tpl_seq,                \* last value handed out by the templates id sequence
    template_files,         \* rows of JobScriptTemplateFile: id, filename, file_type
    workflow_files,         \* rows of WorkflowFile: id, runtime_config
    bucket,                 \* objects of the template bucket: key, body
    render_out,             \* the last call of render: template, parameters, outcome
    render_request,         \* the render request the CLI's create-job-script sent
    token_cache,            \* the CLI's token files: access, refresh (NULL: no file)
    expired,                \* the access tokens whose exp claim has passed
    cli,                    \* the last run of the CLI: command and what became of it
    explicit_login,         \* the last successful login was given an explicit token
    fetch,                  \* fetch_auth_tokens: its position, its clock and its outcome
    inflight,               \* the upload and delete-upload requests being handled
    received                \* the last create call: its body and the caller's email

dbVars == <<applications, app_seq, now, s3, job_scripts, job_submissions>>
replyVars == <<last, response>>
apiVars == <<applications, app_seq, now, s3, job_scripts, job_submissions, last, response>>
tplVars == <<job_script_templates, tpl_seq, template_files, workflow_files, bucket, render_out>>
cliVars == <<render_request>>
tokVars == <<token_cache, expired, cli, explicit_login>>
fetchVars == <<fetch>>
raceVars == <<inflight>>
reqVars == <<received>>
vars == <<applications, app_seq, now, s3, job_scripts, job_submissions, last, response,
          job_script_templates, tpl_seq, template_files, workflow_files, bucket, render_out,
          render_request, token_cache, expired, cli, explicit_login, fetch, inflight, received>>

(***************************************************************************)
(* Bounds of the model.                                                    *)
(***************************************************************************)
MaxId == 2          \* ids the applications sequence hands out
MaxTime == 1        \* ticks of the database clock
MaxScripts == 1     \* job scripts and job submissions ever created

NULL == "None"

Emails == {"u1@x", "u2@x"}
Names == {"n1", "n2"}
Identifiers == {"a", "b"}
Descriptions == {"", "d1"}
Files == {"f1"}
Configs == {"c1"}
Tarballs == {"t1", "t2"}
AppIds == 1..MaxId

(***************************************************************************)
(* Permissions and the guard.                                              *)
(***************************************************************************)
APPLICATIONS_VIEW == "jobbergate:applications:view"
APPLICATIONS_EDIT == "jobbergate:applications:edit"
Permissions == {APPLICATIONS_VIEW, APPLICATIONS_EDIT}

Tokens == [user_email : Emails, permissions : SUBSET Permissions]

\* mutant: deleting an application asks for the view permission only
RequiredPermissionViewDeletes(op) ==
    IF op \in {"applications_list", "applications_get_by_id", "application_delete"}
    THEN APPLICATIONS_VIEW ELSE APPLICATIONS_EDIT

\* The permission each endpoint's guard.lockdown(...) names.
RequiredPermission(op) ==
    IF op \in {"applications_list", "applications_get_by_id"}
    THEN APPLICATIONS_VIEW ELSE APPLICATIONS_EDIT

\* guard.lockdown(permission): the request passes when the token carries it.
Lockdown(token_payload, op) == RequiredPermission(op) \in token_payload.permissions

(***************************************************************************)
(* applications_table and its constraints.                                 *)
(***************************************************************************)
UpdatableFields == {"application_name", "application_identifier", "application_description",
                    "application_file", "application_config"}

ColumnValues(c) ==
    CASE c = "application_name" -> Names
      [] c = "application_identifier" -> Identifiers \cup {NULL}
      [] c = "application_description" -> Descriptions
      [] c = "application_file" -> Files
      [] c = "application_config" -> Configs

\* The rows selected by .where(applications_table.c.id == application_id)
RowsById(rows, application_id) == {r \in rows : r.id = application_id}

\* mutant: the unique index is on application_name
UniqueViolationOnName(rows, self_id, values) ==
    /\ "application_name" \in DOMAIN values
    /\ \E r \in rows : r.id # self_id /\ r.application_name = values.application_name

\* Column("application_identifier", String, unique=True): an insert or update
\* of row self_id violates the index when another row holds the same non-null value.
UniqueViolation(rows, self_id, values) ==
    /\ "application_identifier" \in DOMAIN values
    /\ values.application_identifier # NULL
    /\ \E r \in rows : r.id # self_id
                       /\ r.application_identifier = values.application_identifier

\* The row an insert of `values` stores: the primary key from the sequence and
\* the column defaults (application_uploaded False, created_at and updated_at now()).
InsertedRow(values, new_id, t) ==
    [id |-> new_id,
     application_name |-> values.application_name,
     application_identifier |-> values.application_identifier,
     application_description |-> values.application_description,
     application_owner_email |-> values.application_owner_email,
     application_file |-> values.application_file,
     application_config |-> values.application_config,
     application_uploaded |-> FALSE,
     created_at |-> t,
     updated_at |-> t]

\* mutant: values(application.dict()) - unset fields are written as None
UpdatedRowAllFields(r, values, t) ==
    [k \in DOMAIN r |->
        IF k \in DOMAIN values THEN values[k]
        ELSE IF k \in UpdatableFields THEN NULL
        ELSE IF k = "updated_at" THEN t
        ELSE r[k]]

\* UPDATE ... SET <values> on one row: the columns named by values take the
\* given value, updated_at takes onupdate=func.now(), the rest is kept.
UpdatedRow(r, values, t) ==
    [k \in DOMAIN r |->
        IF k \in DOMAIN values THEN values[k]
        ELSE IF k = "updated_at" THEN t
        ELSE r[k]]

\* applications_table.update().where(id == application_id).values(values)
UpdateRows(rows, application_id, values, t) ==
    {IF r.id = application_id THEN UpdatedRow(r, values, t) ELSE r : r \in rows}

(***************************************************************************)
(* The object store behind s3man: put replaces the object under the key,   *)
(* delete raises KeyError when the key holds no object.                    *)
(***************************************************************************)
S3Key(app_id) == app_id

S3Put(store, upload_file, app_id) ==
    {o \in store : o.key # S3Key(app_id)} \cup {[key |-> S3Key(app_id), body |-> upload_file]}

S3Has(store, app_id) == \E o \in store : o.key = S3Key(app_id)

S3Delete(store, app_id) == {o \in store : o.key # S3Key(app_id)}

(***************************************************************************)
(* Foreign keys of the initial migration.                                  *)
(***************************************************************************)
\* sa.ForeignKeyConstraint(["application_id"], ["applications.id"])
ApplicationReferenced(scripts, application_id) ==
    \E s \in scripts : s.application_id = application_id

\* sa.ForeignKeyConstraint(["job_script_id"], ["job_scripts.id"])
JobScriptReferenced(submissions, job_script_id) ==
    \E s \in submissions : s.job_script_id = job_script_id

Reply(op, id, status, detail) == [op |-> op, id |-> id, status |-> status, detail |-> detail]

\* A request answered without writing anything (an error, or nothing to do).
AnswerOnly(op, id, status, detail) ==
    /\ last' = Reply(op, id, status, detail)
    /\ response' = {}
    /\ UNCHANGED <<applications, app_seq, now, s3, job_scripts, job_submissions>>

(***************************************************************************)
(* POST /applications/                                                     *)
(***************************************************************************)
\* mutant: an owner email given in the request body is kept
applications_create_body_owner(application, token_payload) ==
    IF ~Lockdown(token_payload, "applications_create")
    THEN AnswerOnly("applications_create", 0, 403, "")
    ELSE LET values == IF application.application_owner_email # NULL
                       THEN application
                       ELSE [application EXCEPT
                                !.application_owner_email = token_payload.user_email]
             inserted_id == app_seq + 1
         IN  IF UniqueViolation(applications, inserted_id, values)
             THEN AnswerOnly("applications_create", 0, 409, "")
             ELSE /\ app_seq < MaxId
                  /\ applications' = applications \cup {InsertedRow(values, inserted_id, now)}
                  /\ app_seq' = inserted_id
                  /\ last' = Reply("applications_create", inserted_id, 201, "")
                  /\ response' = RowsById(applications', inserted_id)
                  /\ UNCHANGED <<now, s3, job_scripts, job_submissions>>

applications_create(application, token_payload) ==
    IF ~Lockdown(token_payload, "applications_create")
    THEN AnswerOnly("applications_create", 0, 403, "")
    ELSE LET values == [application EXCEPT
                            !.application_owner_email = token_payload.user_email]
             inserted_id == app_seq + 1
         IN  IF UniqueViolation(applications, inserted_id, values)
             THEN AnswerOnly("applications_create", 0, 409, "")
             ELSE /\ app_seq < MaxId
                  /\ applications' = applications \cup {InsertedRow(values, inserted_id, now)}
                  /\ app_seq' = inserted_id
                  /\ last' = Reply("applications_create", inserted_id, 201, "")
                  /\ response' = RowsById(applications', inserted_id)
                  /\ UNCHANGED <<now, s3, job_scripts, job_submissions>>

(***************************************************************************)
(* POST /applications/{application_id}/upload                              *)
(***************************************************************************)
MAX_UPLOAD_FILE_SIZE == 2    \* settings.MAX_UPLOAD_FILE_SIZE, scaled down

ContentLengths == {1, MAX_UPLOAD_FILE_SIZE, MAX_UPLOAD_FILE_SIZE + 1}

\* mutant: the object is stored before the size is checked
applications_upload_put_first(application_id, upload_file, content_length, token_payload) ==
    IF ~Lockdown(token_payload, "applications_upload")
    THEN AnswerOnly("applications_upload", application_id, 403, "")
    ELSE /\ s3' = S3Put(s3, upload_file, application_id)
         /\ last' = Reply("applications_upload", application_id,
                          IF content_length > MAX_UPLOAD_FILE_SIZE THEN 413 ELSE 201, "")
         /\ response' = {}
         /\ applications' =
                IF content_length > MAX_UPLOAD_FILE_SIZE THEN applications
                ELSE UpdateRows(applications, application_id,
                                [application_uploaded |-> TRUE], now)
         /\ UNCHANGED <<app_seq, now, job_scripts, job_submissions>>

applications_upload(application_id, upload_file, content_length, token_payload) ==
    IF ~Lockdown(token_payload, "applications_upload")
    THEN AnswerOnly("applications_upload", application_id, 403, "")
    ELSE IF content_length > MAX_UPLOAD_FILE_SIZE
    THEN AnswerOnly("applications_upload", application_id, 413, "")
    ELSE /\ s3' = S3Put(s3, upload_file, application_id)
         /\ applications' = UpdateRows(applications, application_id,
                                       [application_uploaded |-> TRUE], now)
         /\ last' = Reply("applications_upload", application_id, 201, "")
         /\ response' = {}
         /\ UNCHANGED <<app_seq, now, job_scripts, job_submissions>>

(***************************************************************************)
(* DELETE /applications/{application_id}/upload                            *)
(***************************************************************************)
\* mutant: the row is not looked up before the object is removed
applications_delete_no_lookup(application_id, token_payload) ==
    IF ~Lockdown(token_payload, "applications_delete")
    THEN AnswerOnly("applications_delete", application_id, 403, "")
    ELSE /\ s3' = S3Delete(s3, application_id)
         /\ applications' = UpdateRows(applications, application_id,
                                       [application_uploaded |-> FALSE], now)
         /\ last' = Reply("applications_delete", application_id, 204, "")
         /\ response' = {}
         /\ UNCHANGED <<app_seq, now, job_scripts, job_submissions>>

applications_delete(application_id, token_payload) ==
    IF ~Lockdown(token_payload, "applications_delete")
    THEN AnswerOnly("applications_delete", application_id, 403, "")
    ELSE IF RowsById(applications, application_id) = {}
    THEN AnswerOnly("applications_delete", application_id, 404, "")
    ELSE IF \A r \in RowsById(applications, application_id) : ~r.application_uploaded
    THEN AnswerOnly("applications_delete", application_id, 204, "")
    ELSE IF ~S3Has(s3, application_id)
    THEN AnswerOnly("applications_delete", application_id, 500, "KeyError")
    ELSE /\ s3' = S3Delete(s3, application_id)
         /\ applications' = UpdateRows(applications, application_id,
                                       [application_uploaded |-> FALSE], now)
         /\ last' = Reply("applications_delete", application_id, 204, "")
         /\ response' = {}
         /\ UNCHANGED <<app_seq, now, job_scripts, job_submissions>>

(***************************************************************************)
(* DELETE /applications/{application_id}                                   *)
(***************************************************************************)
\* mutant: the object is removed from the store before the row is deleted
application_delete_store_first(application_id, token_payload) ==
    IF ~Lockdown(token_payload, "application_delete")
    THEN AnswerOnly("application_delete", application_id, 403, "")
    ELSE IF RowsById(applications, application_id) = {}
    THEN AnswerOnly("application_delete", application_id, 404, "")
    ELSE /\ s3' = S3Delete(s3, application_id)
         /\ IF ApplicationReferenced(job_scripts, application_id)
            THEN /\ last' = Reply("application_delete", application_id, 409, "job_scripts")
                 /\ applications' = applications
            ELSE /\ last' = Reply("application_delete", application_id, 204, "")
                 /\ applications' = applications \ RowsById(applications, application_id)
         /\ response' = {}
         /\ UNCHANGED <<app_seq, now, job_scripts, job_submissions>>

\* mutant: the KeyError of the store is not caught
application_delete_key_error(application_id, token_payload) ==
    IF ~Lockdown(token_payload, "application_delete")
    THEN AnswerOnly("application_delete", application_id, 403, "")
    ELSE IF RowsById(applications, application_id) = {}
    THEN AnswerOnly("application_delete", application_id, 404, "")
    ELSE IF ApplicationReferenced(job_scripts, application_id)
    THEN AnswerOnly("application_delete", application_id, 409, "job_scripts")
    ELSE /\ applications' = applications \ RowsById(applications, application_id)
         /\ s3' = S3Delete(s3, application_id)
         /\ last' = Reply("application_delete", application_id,
                          IF S3Has(s3, application_id) THEN 204 ELSE 500,
                          IF S3Has(s3, application_id) THEN "" ELSE "KeyError")
         /\ response' = {}
         /\ UNCHANGED <<app_seq, now, job_scripts, job_submissions>>

application_delete(application_id, token_payload) ==
    IF ~Lockdown(token_payload, "application_delete")
    THEN AnswerOnly("application_delete", application_id, 403, "")
    ELSE IF RowsById(applications, application_id) = {}
    THEN AnswerOnly("application_delete", application_id, 404, "")
    ELSE IF ApplicationReferenced(job_scripts, application_id)
    THEN \* handle_fk_error: the delete raised a foreign-key violation
         AnswerOnly("application_delete", application_id, 409, "job_scripts")
    ELSE /\ applications' = applications \ RowsById(applications, application_id)
         /\ s3' = S3Delete(s3, application_id)      \* a KeyError is ignored
         /\ last' = Reply("application_delete", application_id, 204, "")
         /\ response' = {}
         /\ UNCHANGED <<app_seq, now, job_scripts, job_submissions>>

(***************************************************************************)
(* GET /applications/                                                      *)
(***************************************************************************)
\* mutant: the owner filter is not applied
ListQueryNoOwner(rows, user, all, user_email) ==
    {r \in rows : all \/ r.application_identifier # NULL}

\* mutant: a row is listed when it passes either filter
ListQueryEitherFilter(rows, user, all, user_email) ==
    {r \in rows : \/ (user /\ r.application_owner_email = user_email)
                  \/ (all \/ r.application_identifier # NULL)}

\* The rows the list query selects, before pagination.
ListQuery(rows, user, all, user_email) ==
    {r \in rows : /\ (user => r.application_owner_email = user_email)
                  /\ (~all => r.application_identifier # NULL)}

applications_list(user, all, token_payload) ==
    IF ~Lockdown(token_payload, "applications_list")
    THEN AnswerOnly("applications_list", 0, 403, "")
    ELSE /\ response' = ListQuery(applications, user, all, token_payload.user_email)
         /\ last' = Reply("applications_list", 0, 200, "")
         /\ UNCHANGED <<applications, app_seq, now, s3, job_scripts, job_submissions>>

(***************************************************************************)
(* GET /applications/{application_id}                                      *)
(***************************************************************************)
applications_get_by_id(application_id, token_payload) ==
    IF ~Lockdown(token_payload, "applications_get_by_id")
    THEN AnswerOnly("applications_get_by_id", application_id, 403, "")
    ELSE IF RowsById(applications, application_id) = {}
    THEN AnswerOnly("applications_get_by_id", application_id, 404, "")
    ELSE /\ response' = RowsById(applications, application_id)
         /\ last' = Reply("applications_get_by_id", application_id, 200, "")
         /\ UNCHANGED <<applications, app_seq, now, s3, job_scripts, job_submissions>>

(***************************************************************************)
(* PUT /applications/{application_id}                                      *)
(***************************************************************************)
\* The update requests: application.dict(exclude_unset=True) holds the fields
\* the request set, and only those. `full` gives the values a field may be set to.
UpdateRequests(fields, full) == {[c \in S |-> f[c]] : S \in SUBSET fields, f \in full}

\* mutant: the unique index is not consulted on update
application_update_unchecked(application_id, application, token_payload) ==
    IF ~Lockdown(token_payload, "application_update")
    THEN AnswerOnly("application_update", application_id, 403, "")
    ELSE IF RowsById(applications, application_id) = {}
    THEN AnswerOnly("application_update", application_id, 500, "ValidationError")
    ELSE /\ applications' = UpdateRows(applications, application_id, application, now)
         /\ last' = Reply("application_update", application_id, 201, "")
         /\ response' = RowsById(applications', application_id)
         /\ UNCHANGED <<app_seq, now, s3, job_scripts, job_submissions>>

\* mutant: the fields other than the identifier are written before the unique
\* index refuses the update
application_update_partial(application_id, application, token_payload) ==
    IF ~Lockdown(token_payload, "application_update")
    THEN AnswerOnly("application_update", application_id, 403, "")
    ELSE IF /\ RowsById(applications, application_id) # {}
            /\ UniqueViolation(applications, application_id, application)
    THEN /\ applications' =
                UpdateRows(applications, application_id,
                           [c \in DOMAIN application \ {"application_identifier"} |->
                                application[c]], now)
         /\ last' = Reply("application_update", application_id, 409, "")
         /\ response' = {}
         /\ UNCHANGED <<app_seq, now, s3, job_scripts, job_submissions>>
    ELSE IF RowsById(applications, application_id) = {}
    THEN AnswerOnly("application_update", application_id, 500, "ValidationError")
    ELSE /\ applications' = UpdateRows(applications, application_id, application, now)
         /\ last' = Reply("application_update", application_id, 201, "")
         /\ response' = RowsById(applications', application_id)
         /\ UNCHANGED <<app_seq, now, s3, job_scripts, job_submissions>>

application_update(application_id, application, token_payload) ==
    IF ~Lockdown(token_payload, "application_update")
    THEN AnswerOnly("application_update", application_id, 403, "")
    ELSE IF /\ RowsById(applications, application_id) # {}
            /\ UniqueViolation(applications, application_id, application)
    THEN AnswerOnly("application_update", application_id, 409, "")
    ELSE IF RowsById(applications, application_id) = {}
    THEN \* no row is updated, fetch_one gives None and parse_obj(None) raises
         AnswerOnly("application_update", application_id, 500, "ValidationError")
    ELSE /\ applications' = UpdateRows(applications, application_id, application, now)
         /\ last' = Reply("application_update", application_id, 201, "")
         /\ response' = RowsById(applications', application_id)
         /\ UNCHANGED <<app_seq, now, s3, job_scripts, job_submissions>>

(***************************************************************************)
(* The dependent tables: a job script names its application, a job         *)
(* submission names its job script.                                        *)
(***************************************************************************)
job_script_create(application_id) ==
    /\ Cardinality(job_scripts) < MaxScripts
    /\ RowsById(applications, application_id) # {}
    /\ job_scripts' = job_scripts \cup
            {[id |-> Cardinality(job_scripts) + 1, application_id |-> application_id]}
    /\ last' = Reply("job_script_create", Cardinality(job_scripts) + 1, 201, "")
    /\ response' = {}
    /\ UNCHANGED <<applications, app_seq, now, s3, job_submissions>>

job_submission_create(job_script_id) ==
    /\ Cardinality(job_submissions) < MaxScripts
    /\ \E s \in job_scripts : s.id = job_script_id
    /\ job_submissions' = job_submissions \cup
            {[id |-> Cardinality(job_submissions) + 1, job_script_id |-> job_script_id]}
    /\ last' = Reply("job_submission_create", Cardinality(job_submissions) + 1, 201, "")
    /\ response' = {}
    /\ UNCHANGED <<applications, app_seq, now, s3, job_scripts>>

job_script_delete(job_script_id) ==
    /\ \E s \in job_scripts : s.id = job_script_id
    /\ IF JobScriptReferenced(job_submissions, job_script_id)
       THEN AnswerOnly("job_script_delete", job_script_id, 409, "job_submissions")
       ELSE /\ job_scripts' = {s \in job_scripts : s.id # job_script_id}
            /\ last' = Reply("job_script_delete", job_script_id, 204, "")
            /\ response' = {}
            /\ UNCHANGED <<applications, app_seq, now, s3, job_submissions>>

\* The database clock advances.
Tick ==
    /\ now < MaxTime
    /\ now' = now + 1
    /\ UNCHANGED <<applications, app_seq, s3, job_scripts, job_submissions, last, response>>

(***************************************************************************)
(* JobScriptTemplateService                                                *)
(***************************************************************************)
MaxTemplates == 2   \* ids the job_script_templates sequence hands out

TemplateIds == 1..MaxTemplates

\* A call of a service method that returns or raises without writing.
ServiceAnswer(op, id, status, detail) ==
    /\ last' = Reply(op, id, status, detail)
    /\ response' = {}
    /\ UNCHANGED tplVars

\* The identifier column of job_script_templates is unique when present.
TemplateIdentifierTaken(rows, identifier) ==
    identifier # NULL /\ \E r \in rows : r.identifier = identifier

\* JobScriptTemplateService.create: the row holds the fields the request set
\* and the owner_email handed in by the router.
JobScriptTemplateService_create(incoming_data, owner_email) ==
    IF TemplateIdentifierTaken(job_script_templates, incoming_data.identifier)
    THEN ServiceAnswer("template_create", 0, 500, "IntegrityError")
    ELSE /\ tpl_seq < MaxTemplates
         /\ job_script_templates' = job_script_templates \cup
                {[id |-> tpl_seq + 1, name |-> incoming_data.name,
                  identifier |-> incoming_data.identifier, owner_email |-> owner_email]}
         /\ tpl_seq' = tpl_seq + 1
         /\ last' = Reply("template_create", tpl_seq + 1, 200, "")
         /\ response' = {r \in job_script_templates' : r.id = tpl_seq + 1}
         /\ UNCHANGED <<template_files, workflow_files, bucket, render_out>>

\* search_clause(search, JobScriptTemplate.searchable_fields): the row matches
\* when a searchable column holds the search text.
SearchClause(r, search) == r.name = search \/ r.identifier = search

\* Python truthiness of an optional string argument: None and "" are falsy.
Truthy(x) == x # NULL /\ x # ""

\* The rows JobScriptTemplateService.list selects; order_by and paginate
\* arrange and slice these rows and select no others.
TemplateListQuery(rows, all, user_email, search) ==
    {r \in rows : /\ (Truthy(user_email) => r.owner_email = user_email)
                  /\ (~all => r.identifier # NULL)
                  /\ (Truthy(search) => SearchClause(r, search))}

JobScriptTemplateService_list(all, user_email, search) ==
    /\ response' = TemplateListQuery(job_script_templates, all, user_email, search)
    /\ last' = Reply("template_list", 0, 200, "")
    /\ UNCHANGED tplVars

\* A path parameter id_or_identifier: an integer, a string, or a value of
\* another type (a float, None).
ById(id) == [type |-> "int", value |-> id]
ByIdentifier(identifier) == [type |-> "str", value |-> identifier]
ByOther(type, value) == [type |-> type, value |-> value]

\* int(s) of a string of digits; 0 when the string is not a string of digits.
DigitsValue(s) ==
    CASE s = "1" -> 1
      [] s = "2" -> 2
      [] OTHER -> 0

\* mutant: a string of digits is taken for an id
LocateClauseDigitsAsId(id_or_identifier) ==
    IF id_or_identifier.type = "str" /\ DigitsValue(id_or_identifier.value) # 0
    THEN [raised |-> FALSE, column |-> "id", value |-> DigitsValue(id_or_identifier.value)]
    ELSE IF id_or_identifier.type = "str"
    THEN [raised |-> FALSE, column |-> "identifier", value |-> id_or_identifier.value]
    ELSE IF id_or_identifier.type = "int"
    THEN [raised |-> FALSE, column |-> "id", value |-> id_or_identifier.value]
    ELSE [raised |-> TRUE, column |-> NULL, value |-> NULL]

\* _locate_by_id_or_identifier: the where clause added to the query. A string
\* selects on the identifier column, an integer on the id column, anything
\* else raises ValueError.
LocateClause(id_or_identifier) ==
    IF id_or_identifier.type = "str"
    THEN [raised |-> FALSE, column |-> "identifier", value |-> id_or_identifier.value]
    ELSE IF id_or_identifier.type = "int"
    THEN [raised |-> FALSE, column |-> "id", value |-> id_or_identifier.value]
    ELSE [raised |-> TRUE, column |-> NULL, value |-> NULL]

\* The rows the located query selects.
LocateByIdOrIdentifier(rows, id_or_identifier) ==
    LET clause == LocateClause(id_or_identifier)
    IN  IF clause.raised THEN {}
        ELSE {r \in rows : r[clause.column] = clause.value}

\* JobScriptTemplateService.get: the located query is executed and
\* scalar_one_or_none gives its row or None. The detail of the answer names
\* the column the executed query selected on; a ValueError is raised before
\* any query is executed.
JobScriptTemplateService_get(id_or_identifier) ==
    LET clause == LocateClause(id_or_identifier)
        located == LocateByIdOrIdentifier(job_script_templates, id_or_identifier)
    IN  IF clause.raised
        THEN ServiceAnswer("template_get", 0, 500, "ValueError")
        ELSE IF Cardinality(located) > 1
        THEN ServiceAnswer("template_get", 0, 500, "MultipleResultsFound")
        ELSE /\ last' = Reply("template_get",
                              IF located = {} THEN 0 ELSE (CHOOSE r \in located : TRUE).id,
                              200, clause.column)
             /\ response' = located
             /\ UNCHANGED tplVars

\* JobScriptTemplateService.delete: get, NoResultFound when it gives None,
\* else session.delete of the row and flush.
JobScriptTemplateService_delete(id_or_identifier) ==
    LET clause == LocateClause(id_or_identifier)
        located == LocateByIdOrIdentifier(job_script_templates, id_or_identifier)
    IN  IF clause.raised
        THEN ServiceAnswer("template_delete", 0, 500, "ValueError")
        ELSE IF Cardinality(located) > 1
        THEN ServiceAnswer("template_delete", 0, 500, "MultipleResultsFound")
        ELSE IF located = {}
        THEN ServiceAnswer("template_delete", 0, 500, "NoResultFound")
        ELSE /\ job_script_templates' = job_script_templates \ located
             /\ last' = Reply("template_delete", (CHOOSE r \in located : TRUE).id, 200,
                              clause.column)
             /\ response' = {}
             /\ UNCHANGED <<tpl_seq, template_files, workflow_files, bucket, render_out>>

\* query.values(**incoming_data.dict(exclude_unset=True)) on one located row
TemplateUpdatedRow(r, values) ==
    [k \in DOMAIN r |-> IF k \in DOMAIN values THEN values[k] ELSE r[k]]

\* JobScriptTemplateService.update: scalar_one() raises when no row was located.
JobScriptTemplateService_update(id_or_identifier, incoming_data) ==
    LET located == LocateByIdOrIdentifier(job_script_templates, id_or_identifier)
    IN  IF LocateClause(id_or_identifier).raised
        THEN ServiceAnswer("template_update", 0, 500, "ValueError")
        ELSE IF /\ located # {}
                /\ "identifier" \in DOMAIN incoming_data
                /\ TemplateIdentifierTaken(job_script_templates \ located,
                                           incoming_data.identifier)
        THEN ServiceAnswer("template_update", 0, 500, "IntegrityError")
        ELSE IF located = {}
        THEN ServiceAnswer("template_update", 0, 500, "NoResultFound")
        ELSE /\ job_script_templates' =
                    {IF r \in located THEN TemplateUpdatedRow(r, incoming_data) ELSE r :
                        r \in job_script_templates}
             /\ last' = Reply("template_update", (CHOOSE r \in located : TRUE).id, 200, "")
             /\ response' = {TemplateUpdatedRow(r, incoming_data) : r \in located}
             /\ UNCHANGED <<tpl_seq, template_files, workflow_files, bucket, render_out>>

(***************************************************************************)
(* JobScriptTemplateFilesService and WorkflowFilesService                  *)
(***************************************************************************)
FileTypes == {"ENTRYPOINT", "SUPPORT"}
Filenames == {"a.j2", "b.j2"}

\* JobScriptTemplateFile.file_key: the table's directory, the parent id and the filename.
TemplateFileKey(id, filename) == <<"job_script_template_files", id, filename>>

\* WorkflowFile.file_key: one workflow file per template.
WorkflowFileKey(id) == <<"workflow_files", id, "jobbergate.py">>

\* bucket.upload_fileobj(Fileobj, Key): the object under Key is replaced.
UploadFileobj(objects, key, body) ==
    {o \in objects : o.key # key} \cup {[key |-> key, body |-> body]}

\* bucket.meta.client.delete_object(Bucket, Key)
DeleteObject(objects, key) == {o \in objects : o.key # key}

\* mutant: session.add: the row is inserted beside the row with the same primary key
MergeFileAdd(rows, row) == rows \cup {row}

\* session.merge(template_file): the row with the same primary key
\* (id, filename) is replaced, or the row is inserted.
MergeFile(rows, row) ==
    {r \in rows : ~(r.id = row.id /\ r.filename = row.filename)} \cup {row}

\* session.merge(workflow_file): primary key id.
MergeWorkflow(rows, row) == {r \in rows : r.id # row.id} \cup {row}

JobScriptTemplateFilesService_upsert(job_script_template_id, file_type, filename, file) ==
    /\ \E t \in job_script_templates : t.id = job_script_template_id
    /\ LET template_file == [id |-> job_script_template_id, filename |-> filename,
                             file_type |-> file_type]
       IN  /\ bucket' = UploadFileobj(bucket,
                            TemplateFileKey(template_file.id, template_file.filename), file)
           /\ template_files' = MergeFile(template_files, template_file)
           /\ last' = Reply("file_upsert", job_script_template_id, 200, filename)
           /\ response' = {template_file}
    /\ UNCHANGED <<job_script_templates, tpl_seq, workflow_files, render_out>>

JobScriptTemplateFilesService_delete(template_file) ==
    /\ template_file \in template_files
    /\ template_files' = template_files \ {template_file}
    /\ bucket' = DeleteObject(bucket, TemplateFileKey(template_file.id, template_file.filename))
    /\ last' = Reply("file_delete", template_file.id, 200, template_file.filename)
    /\ response' = {}
    /\ UNCHANGED <<job_script_templates, tpl_seq, workflow_files, render_out>>

RuntimeConfigs == {"rc1", "rc2"}

WorkflowFilesService_upsert(job_script_template_id, runtime_config, file) ==
    /\ \E t \in job_script_templates : t.id = job_script_template_id
    /\ LET workflow_file == [id |-> job_script_template_id, runtime_config |-> runtime_config]
       IN  /\ bucket' = UploadFileobj(bucket, WorkflowFileKey(workflow_file.id), file)
           /\ workflow_files' = MergeWorkflow(workflow_files, workflow_file)
           /\ last' = Reply("workflow_upsert", job_script_template_id, 200, "")
           /\ response' = {workflow_file}
    /\ UNCHANGED <<job_script_templates, tpl_seq, template_files, render_out>>

(***************************************************************************)
(* JobScriptTemplateFilesService.render: a template is a sequence of       *)
(* pieces, each literal text, a placeholder {{ name }} or a placeholder    *)
(* {{ name.attr }}; a parameter is a string or a mapping of strings.       *)
(***************************************************************************)
Lit(t) == [kind |-> "text", name |-> t, attr |-> NULL]
Var(n) == [kind |-> "var", name |-> n, attr |-> NULL]
Attr(n, a) == [kind |-> "attr", name |-> n, attr |-> a]

Scalar(v) == [isdict |-> FALSE, str |-> v, items |-> <<>>]
Dict(m) == [isdict |-> TRUE, str |-> "{..}", items |-> m]

\* Template(...) is built with jinja2's default Undefined: a name that is not
\* a parameter prints as the empty string, an attribute of a value that lacks it
\* prints as the empty string, and an attribute of an undefined name raises
\* UndefinedError.
Substitute(piece, parameters) ==
    CASE piece.kind = "text" -> [raised |-> FALSE, out |-> piece.name]
      [] piece.kind = "var" ->
            IF piece.name \in DOMAIN parameters
            THEN [raised |-> FALSE, out |-> parameters[piece.name].str]
            ELSE [raised |-> FALSE, out |-> ""]
      [] piece.kind = "attr" ->
            IF piece.name \notin DOMAIN parameters
            THEN [raised |-> TRUE, out |-> ""]
            ELSE IF /\ parameters[piece.name].isdict
                    /\ piece.attr \in DOMAIN parameters[piece.name].items
                 THEN [raised |-> FALSE, out |-> parameters[piece.name].items[piece.attr]]
                 ELSE [raised |-> FALSE, out |-> ""]

\* str(Template(file_content).render(**parameters))
Render(file_content, parameters) ==
    IF \E i \in DOMAIN file_content : Substitute(file_content[i], parameters).raised
    THEN [status |-> "error", text |-> <<>>]
    ELSE [status |-> "ok",
          text |-> [i \in DOMAIN file_content |-> Substitute(file_content[i], parameters).out]]

JobScriptTemplateFilesService_render(template_file, parameters) ==
    /\ template_file \in template_files
    /\ \E o \in bucket :
          /\ o.key = TemplateFileKey(template_file.id, template_file.filename)
          /\ render_out' = [status |-> Render(o.body, parameters).status,
                            text |-> Render(o.body, parameters).text,
                            template |-> o.body,
                            parameters |-> parameters]
          /\ last' = Reply("render", template_file.id,
                           IF Render(o.body, parameters).status = "ok" THEN 200 ELSE 500,
                           template_file.filename)
    /\ response' = {}
    /\ UNCHANGED <<job_script_templates, tpl_seq, template_files, workflow_files, bucket>>

(***************************************************************************)
(* The CLI's job-script creation: the param_dict of the render request is  *)
(* assembled from the application's config, the answers collected          *)
(* interactively and the parameter file.                                   *)
(***************************************************************************)
ParamKeys == {"foo", "bar", "baz"}

\* mutant: the interactive answers are applied after the parameter file
MergeParamsAnswersLast(config, answers, param_file) ==
    [k \in DOMAIN config \cup DOMAIN answers \cup DOMAIN param_file |->
        IF k \in DOMAIN answers THEN answers[k]
        ELSE IF k \in DOMAIN param_file THEN param_file[k]
        ELSE config[k]]

\* Later sources take precedence: the config's defaults, then the interactive
\* answers, then the parameter file.
MergeParams(config, answers, param_file) ==
    [k \in DOMAIN config \cup DOMAIN answers \cup DOMAIN param_file |->
        IF k \in DOMAIN param_file THEN param_file[k]
        ELSE IF k \in DOMAIN answers THEN answers[k]
        ELSE config[k]]

\* create-job-script: in fast mode no question is asked; otherwise the
\* prepared answers are collected.
create_job_script(config, prepared_input, param_file, fast) ==
    /\ render_request.state = "none"
    /\ LET answers == IF fast THEN <<>> ELSE prepared_input
       IN  render_request' = [state |-> "sent", config |-> config, answers |-> answers,
                              param_file |-> param_file,
                              param_dict |-> MergeParams(config, answers, param_file)]

(***************************************************************************)
(* The CLI's tokens (main.py). An access token is a JWT: well formed or    *)
(* not, and expired once its exp claim has passed.                         *)
(***************************************************************************)
AccessTokens == {"A1", "A2"}            \* well-formed JWTs with identity data
MalformedTokens == {"garbage"}           \* jwt.decode raises on these
NoIdentityTokens == {"anon"}            \* well-formed JWTs without identity data
RefreshTokens == {"R1", "R2"}

TokenSet(access_token, refresh_token) ==
    [access_token |-> access_token, refresh_token |-> refresh_token]

\* mutant: verify_exp is off
ValidateTokenIgnoreExpiry(token, expired_tokens) ==
    IF token \notin AccessTokens THEN "invalid" ELSE "ok"

\* validate_token_and_extract_identity: "ok" with the identity extracted,
\* "expired" when jwt.decode raises ExpiredSignatureError (re-raised to the
\* caller), "invalid" when it aborts with a message.
ValidateToken(token, expired_tokens) ==
    IF token \notin AccessTokens THEN "invalid"
    ELSE IF token \in expired_tokens THEN "expired"
    ELSE "ok"

\* mutant: a missing access-token file is not noticed
LoadTokensFromCacheNoAbort(cache) ==
    [abort |-> FALSE, token_set |-> TokenSet(cache.access_token, cache.refresh_token)]

\* load_tokens_from_cache: aborts when the access-token file does not exist
LoadTokensFromCache(cache) ==
    IF cache.access_token = NULL
    THEN [abort |-> TRUE, token_set |-> TokenSet(NULL, NULL)]
    ELSE [abort |-> FALSE, token_set |-> TokenSet(cache.access_token, cache.refresh_token)]

\* save_tokens_to_cache: the access token is written; the refresh token is
\* written only when the token set holds one.
SaveTokensToCache(cache, token_set) ==
    TokenSet(token_set.access_token,
             IF token_set.refresh_token # NULL THEN token_set.refresh_token
             ELSE cache.refresh_token)

\* mutant: only the access-token file is removed
ClearTokenCacheAccessOnly(cache) == TokenSet(NULL, cache.refresh_token)

\* clear_token_cache: both files are removed
ClearTokenCache(cache) == TokenSet(NULL, NULL)

\* The answers of the auth server to a refresh request and to a device login.
RefreshResponses ==
    [status_code : {200}, access_token : AccessTokens \cup NoIdentityTokens] \cup
    {[status_code |-> 403, access_token |-> NULL]}

\* mutant: the tokens are not saved to the cache after validation
InitAccessTokenNoSave(cache, expired_tokens, refresh_response) ==
    LET loaded == LoadTokensFromCache(cache)
        token_set == loaded.token_set
        stop(outcome, sent) ==
            [outcome |-> outcome, token |-> NULL, refresh_sent |-> sent, cache |-> cache]
        go(access_token, sent) ==
            [outcome |-> "ok", token |-> access_token, refresh_sent |-> sent,
             cache |-> cache]
        first == ValidateToken(token_set.access_token, expired_tokens)
    IN  IF loaded.abort THEN stop("please_login", NULL)
        ELSE IF first = "invalid" THEN stop("invalid_token", NULL)
        ELSE IF first = "ok" THEN go(token_set.access_token, NULL)
        ELSE IF token_set.refresh_token = NULL THEN stop("expired_login_again", NULL)
        ELSE IF refresh_response.status_code # 200
        THEN stop("refresh_failed", token_set.refresh_token)
        ELSE LET second == ValidateToken(refresh_response.access_token, expired_tokens)
             IN  IF second = "ok"
                 THEN go(refresh_response.access_token, token_set.refresh_token)
                 ELSE IF second = "expired"
                 THEN stop("uncaught", token_set.refresh_token)
                 ELSE stop("invalid_token", token_set.refresh_token)

\* init_access_token: what the start of a command does with the cache and
\* the auth server's answer. outcome "ok" returns token; refresh_sent is the
\* refresh token posted to the auth server, if any; cache is the cache after.
InitAccessToken(cache, expired_tokens, refresh_response) ==
    LET loaded == LoadTokensFromCache(cache)
        token_set == loaded.token_set
        stop(outcome, sent) ==
            [outcome |-> outcome, token |-> NULL, refresh_sent |-> sent, cache |-> cache]
        go(access_token, sent) ==
            [outcome |-> "ok", token |-> access_token, refresh_sent |-> sent,
             cache |-> SaveTokensToCache(cache, TokenSet(access_token,
                                                         token_set.refresh_token))]
        first == ValidateToken(token_set.access_token, expired_tokens)
    IN  IF loaded.abort THEN stop("please_login", NULL)
        ELSE IF first = "invalid" THEN stop("invalid_token", NULL)
        ELSE IF first = "ok" THEN go(token_set.access_token, NULL)
        ELSE IF token_set.refresh_token = NULL THEN stop("expired_login_again", NULL)
        ELSE IF refresh_response.status_code # 200
        THEN stop("refresh_failed", token_set.refresh_token)
        ELSE LET second == ValidateToken(refresh_response.access_token, expired_tokens)
             IN  IF second = "ok"
                 THEN go(refresh_response.access_token, token_set.refresh_token)
                 ELSE IF second = "expired"
                 THEN stop("uncaught", token_set.refresh_token)
                 ELSE stop("invalid_token", token_set.refresh_token)

\* What the body of a wrapped command does.
BodyOutcomes == {"result", "no_data", "raises"}

\* mutant: the exception is reported and the process exits normally
JobbergateCommandWrapperExitZero(body, sentry_dsn) ==
    IF body = "raises"
    THEN [exit_code |-> 0, reported |-> sentry_dsn, printed |-> "error"]
    ELSE [exit_code |-> 0, reported |-> FALSE,
          printed |-> IF body = "result" THEN "result" ELSE "Received no data"]

\* jobbergate_command_wrapper: the result (or "Received no data") is printed;
\* an exception of the body is logged, sent to Sentry if settings.SENTRY_DSN
\* is set, answered with a message on stderr and sys.exit(1).
JobbergateCommandWrapper(body, sentry_dsn) ==
    IF body = "raises"
    THEN [exit_code |-> 1, reported |-> sentry_dsn, printed |-> "error"]
    ELSE [exit_code |-> 0, reported |-> FALSE,
          printed |-> IF body = "result" THEN "result" ELSE "Received no data"]

Commands == {"list-applications", "upload-logs"}

CliRun(command, outcome, token, api_built, refresh_sent, body, wrapped) ==
    [command |-> command, outcome |-> outcome, token |-> token, api_built |-> api_built,
     refresh_sent |-> refresh_sent, body |-> body, reported |-> wrapped.reported,
     printed |-> wrapped.printed, exit_code |-> wrapped.exit_code]

\* A run that ended before any command body: a click abort or a traceback.
NotWrapped == [exit_code |-> 1, reported |-> FALSE, printed |-> "error"]

\* The keys of ctx.obj that are set when the body of a subcommand other than
\* login and logout starts: "identity" by init_access_token, "api" and "raw"
\* by main.
MainContextKeys == {"identity", "api", "raw"}

\* The keys of ctx.obj the body of a command reads.
ContextKeysRead(command) ==
    CASE command = "list-applications" -> {"api"}
      [] command = "upload-logs" -> {"token"}
      [] OTHER -> {}

\* What the body of a command does when the rest of its work does `body`:
\* reading a key of ctx.obj that was not set raises KeyError.
CommandBody(command, body) ==
    IF ContextKeysRead(command) \subseteq MainContextKeys THEN body ELSE "raises"

\* main() for a subcommand other than login and logout, and the subcommand:
\* init_access_token, then the API client is built with the token, then the
\* wrapped command runs.
run_command(command, refresh_response, body, sentry_dsn) ==
    LET init == InitAccessToken(token_cache, expired, refresh_response)
    IN  /\ token_cache' = init.cache
        /\ cli' = IF init.outcome = "ok"
                  THEN CliRun(command, "ran", init.token, TRUE, init.refresh_sent,
                              CommandBody(command, body),
                              JobbergateCommandWrapper(CommandBody(command, body),
                                                       sentry_dsn))
                  ELSE CliRun(command, init.outcome, NULL, FALSE, init.refresh_sent, NULL,
                              NotWrapped)
        /\ UNCHANGED <<expired, explicit_login>>

\* login --token T: the cache is cleared, then T is validated and saved.
login_with_token(token) ==
    LET cleared == ClearTokenCache(token_cache)
        valid == ValidateToken(token, expired)
    IN  /\ token_cache' = IF valid = "ok"
                          THEN SaveTokensToCache(cleared, TokenSet(token, NULL))
                          ELSE cleared
        /\ cli' = CliRun("login",
                         CASE valid = "ok" -> "logged_in"
                           [] valid = "expired" -> "uncaught"
                           [] OTHER -> "invalid_token",
                         NULL, FALSE, NULL, NULL,
                         IF valid = "ok"
                         THEN [exit_code |-> 0, reported |-> FALSE, printed |-> "Logged in"]
                         ELSE NotWrapped)
        /\ explicit_login' = IF valid = "ok" THEN TRUE ELSE explicit_login
        /\ UNCHANGED expired

\* The outcomes of fetch_auth_tokens: a token set, its refresh token
\* optional, or an abort (request refused, time limit reached).
DeviceResponses ==
    [ok : {TRUE}, access_token : AccessTokens, refresh_token : RefreshTokens \cup {NULL}]
    \cup {[ok |-> FALSE, access_token |-> NULL, refresh_token |-> NULL]}

\* login without --token: the tokens are fetched, validated and saved.
login_device(device_response) ==
    LET valid == ValidateToken(device_response.access_token, expired)
        saved == device_response.ok /\ valid = "ok"
    IN  /\ token_cache' =
                IF saved
                THEN SaveTokensToCache(token_cache,
                                       TokenSet(device_response.access_token,
                                                device_response.refresh_token))
                ELSE token_cache
        /\ cli' = CliRun("login",
                         CASE saved -> "logged_in"
                           [] ~device_response.ok -> "login_failed"
                           [] valid = "expired" -> "uncaught"
                           [] OTHER -> "invalid_token",
                         NULL, FALSE, NULL, NULL,
                         IF saved
                         THEN [exit_code |-> 0, reported |-> FALSE, printed |-> "Logged in"]
                         ELSE NotWrapped)
        /\ explicit_login' = IF saved THEN FALSE ELSE explicit_login
        /\ UNCHANGED expired

\* logout: the cache is cleared.
logout ==
    /\ token_cache' = ClearTokenCache(token_cache)
    /\ cli' = CliRun("logout", "logged_out", NULL, FALSE, NULL, NULL,
                     [exit_code |-> 0, reported |-> FALSE,
                      printed |-> "Cleared cached tokens"])
    /\ UNCHANGED <<expired, explicit_login>>

\* Time passes the exp claim of an access token.
Expire(token) ==
    /\ token \in AccessTokens \ expired
    /\ expired' = expired \cup {token}
    /\ UNCHANGED <<token_cache, cli, explicit_login>>

TokInit ==
    /\ token_cache = TokenSet(NULL, NULL)
    /\ expired = {}
    /\ cli = CliRun("none", "none", NULL, FALSE, NULL, NULL,
                    [exit_code |-> 0, reported |-> FALSE, printed |-> ""])
    /\ explicit_login = FALSE

(***************************************************************************)
(* fetch_auth_tokens (main.py): the device code is requested, then the     *)
(* token endpoint is polled until it answers 200 or the time limit has     *)
(* passed. The clock counts the time since start_time; the clock and the   *)
(* count of attempts stop once they are past every value the loop test can *)
(* tell apart.                                                             *)
(***************************************************************************)
AUTH0_MAX_POLL_TIME == 3    \* settings.AUTH0_MAX_POLL_TIME, scaled down

\* data["interval"] of the device-code answer
PollIntervals == {0, 1, 2}

\* The time a request to the token endpoint takes
PollDurations == {1, 2}

ClockStop == AUTH0_MAX_POLL_TIME + 4

Advance(elapsed, by) == IF elapsed + by > ClockStop THEN ClockStop ELSE elapsed + by

\* The answers of the device-code endpoint and of the token endpoint: a JSON
\* body with a status code, or a body that is not JSON.
DeviceCodeAnswers ==
    [json : {TRUE}, status_code : {200}, interval : PollIntervals]
    \cup {[json |-> TRUE, status_code |-> 403, interval |-> 0],
          [json |-> FALSE, status_code |-> 200, interval |-> 0]}

TokenAnswers ==
    [json : {TRUE}, status_code : {200, 403}, access_token : AccessTokens,
     refresh_token : RefreshTokens \cup {NULL}]
    \cup {[json |-> FALSE, status_code |-> 200, access_token |-> NULL,
           refresh_token |-> NULL]}

Fetch(pc, interval, elapsed, attempt_count, token_set, message) ==
    [pc |-> pc, interval |-> interval, elapsed |-> elapsed,
     attempt_count |-> attempt_count, token_set |-> token_set, message |-> message]

\* Nothing is returned.
NoTokens == TokenSet(NULL, NULL)

\* mutant: while True
PollTimeLeftAlways(elapsed) == TRUE

\* while start_time + time_limit > datetime.now()
PollTimeLeft(elapsed) == AUTH0_MAX_POLL_TIME > elapsed

\* The device-code request and the start of the clock.
fetch_start(answer) ==
    /\ fetch.pc \in {"idle", "returned", "aborted"}
    /\ fetch' =
          IF ~answer.json
          THEN Fetch("aborted", 0, 0, 0, NoTokens,
                     "Failed unpacking response for verification code")
          ELSE IF answer.status_code # 200
          THEN Fetch("aborted", 0, 0, 0, NoTokens, "Could not authenticate")
          ELSE Fetch("polling", answer.interval, 0, 0, NoTokens, "")

\* One turn of the loop whose test passes: the token endpoint is asked and
\* answers after `duration`; a 200 answer is returned as a TokenSet, any other
\* JSON answer is followed by time.sleep(sleep_interval) and the next turn.
fetch_poll(answer, duration) ==
    /\ fetch.pc = "polling"
    /\ PollTimeLeft(fetch.elapsed)
    /\ LET attempt_count == Advance(fetch.attempt_count, 1)
       IN  fetch' =
              IF ~answer.json
              THEN Fetch("aborted", fetch.interval, Advance(fetch.elapsed, duration),
                         attempt_count, NoTokens, "Failed unpacking response for tokens")
              ELSE IF answer.status_code # 200
              THEN Fetch("polling", fetch.interval,
                         Advance(fetch.elapsed, duration + fetch.interval),
                         attempt_count, NoTokens, "")
              ELSE Fetch("returned", fetch.interval, Advance(fetch.elapsed, duration),
                         attempt_count,
                         TokenSet(answer.access_token, answer.refresh_token), "")

\* The loop test fails: the abort after the loop.
fetch_timeout ==
    /\ fetch.pc = "polling"
    /\ ~PollTimeLeft(fetch.elapsed)
    /\ fetch' = Fetch("aborted", fetch.interval, fetch.elapsed, fetch.attempt_count,
                      NoTokens, "Timed out while waiting for user to complete login")

FetchInit == fetch = Fetch("idle", 0, 0, 0, NoTokens, "")

(***************************************************************************)
(* Upload and delete-upload handled concurrently: a handler's call of the  *)
(* object store and each statement it sends to the database are separate   *)
(* steps. The handlers await the database and nothing orders one request   *)
(* against another, so the steps of the requests being handled interleave. *)
(***************************************************************************)
MaxRequests == 3    \* upload and delete-upload requests ever received

Request(rid, op, application_id, pc) ==
    [rid |-> rid, op |-> op, application_id |-> application_id, pc |-> pc]

\* The request is received and handled up to its next await.
Received(op, application_id, pc) ==
    [started |-> inflight.started + 1,
     requests |-> inflight.requests \cup
                    {Request(inflight.started + 1, op, application_id, pc)}]

\* The request was answered.
Answered(request) ==
    [started |-> inflight.started, requests |-> inflight.requests \ {request}]

\* applications_upload up to s3man.put: the guard, the size check, the put.
applications_upload_put(application_id, upload_file, content_length, token_payload) ==
    /\ inflight.started < MaxRequests
    /\ Lockdown(token_payload, "applications_upload")
    /\ content_length <= MAX_UPLOAD_FILE_SIZE
    /\ s3' = S3Put(s3, upload_file, application_id)
    /\ inflight' = Received("applications_upload", application_id, "update")
    /\ UNCHANGED <<applications, app_seq, now, job_scripts, job_submissions, last, response>>

\* applications_upload from its UPDATE to its answer.
applications_upload_update(request) ==
    /\ request \in inflight.requests
    /\ request.op = "applications_upload" /\ request.pc = "update"
    /\ applications' = UpdateRows(applications, request.application_id,
                                  [application_uploaded |-> TRUE], now)
    /\ last' = Reply("applications_upload", request.application_id, 201, "")
    /\ response' = {}
    /\ inflight' = Answered(request)
    /\ UNCHANGED <<app_seq, now, s3, job_scripts, job_submissions>>

\* applications_delete up to its select: 404 when no row is found, 204 at
\* once when the row is not flagged as uploaded.
applications_delete_select(application_id, token_payload) ==
    /\ inflight.started < MaxRequests
    /\ Lockdown(token_payload, "applications_delete")
    /\ IF RowsById(applications, application_id) = {}
       THEN /\ AnswerOnly("applications_delete", application_id, 404, "")
            /\ inflight' = [inflight EXCEPT !.started = @ + 1]
       ELSE IF \A r \in RowsById(applications, application_id) : ~r.application_uploaded
       THEN /\ AnswerOnly("applications_delete", application_id, 204, "")
            /\ inflight' = [inflight EXCEPT !.started = @ + 1]
       ELSE /\ inflight' = Received("applications_delete", application_id, "s3")
            /\ UNCHANGED <<applications, app_seq, now, s3, job_scripts, job_submissions,
                           last, response>>

\* applications_delete at s3man.delete: a KeyError ends the request.
applications_delete_s3(request) ==
    /\ request \in inflight.requests
    /\ request.op = "applications_delete" /\ request.pc = "s3"
    /\ IF ~S3Has(s3, request.application_id)
       THEN /\ AnswerOnly("applications_delete", request.application_id, 500, "KeyError")
            /\ inflight' = Answered(request)
       ELSE /\ s3' = S3Delete(s3, request.application_id)
            /\ inflight' =
                  [inflight EXCEPT !.requests =
                        (@ \ {request}) \cup {[request EXCEPT !.pc = "update"]}]
            /\ UNCHANGED <<applications, app_seq, now, job_scripts, job_submissions,
                           last, response>>

\* applications_delete from its UPDATE to its answer.
applications_delete_update(request) ==
    /\ request \in inflight.requests
    /\ request.op = "applications_delete" /\ request.pc = "update"
    /\ applications' = UpdateRows(applications, request.application_id,
                                  [application_uploaded |-> FALSE], now)
    /\ last' = Reply("applications_delete", request.application_id, 204, "")
    /\ response' = {}
    /\ inflight' = Answered(request)
    /\ UNCHANGED <<app_seq, now, s3, job_scripts, job_submissions>>

RaceInit == inflight = [started |-> 0, requests |-> {}]

(***************************************************************************)
(* Initial state: empty tables, empty stores, nothing sent.                *)
(***************************************************************************)
DbInit ==
    /\ applications = {}
    /\ app_seq = 0
    /\ now = 0
    /\ s3 = {}
    /\ job_scripts = {}
    /\ job_submissions = {}

TplInit ==
    /\ job_script_templates = {}
    /\ tpl_seq = 0
    /\ template_files = {}
    /\ workflow_files = {}
    /\ bucket = {}
    /\ render_out = [status |-> "none", text |-> <<>>, template |-> <<>>, parameters |-> <<>>]

\* A create call as it arrives: the request body and the email of the caller's
\* identity (the token's user_email, the owner_email the router hands in).
CreateCall(body, user_email) == [body |-> body, user_email |-> user_email]

Init ==
    /\ DbInit
    /\ TplInit
    /\ last = Reply("none", 0, 0, "")
    /\ response = {}
    /\ render_request = [state |-> "none", config |-> <<>>, answers |-> <<>>,
                         param_file |-> <<>>, param_dict |-> <<>>]
    /\ TokInit
    /\ FetchInit
    /\ RaceInit
    /\ received = CreateCall(NULL, NULL)

\* An action of the REST API, of the template services, of the CLI: the other
\* components' state is left alone.
Api(A) == A /\ UNCHANGED <<tplVars, cliVars, tokVars, fetchVars, raceVars, reqVars>>
Svc(A) == A /\ UNCHANGED <<dbVars, cliVars, tokVars, fetchVars, raceVars, reqVars>>
Cli(A) == A /\ UNCHANGED <<dbVars, replyVars, tplVars, tokVars, fetchVars, raceVars, reqVars>>
Tok(A) == A /\ UNCHANGED <<dbVars, replyVars, tplVars, cliVars, fetchVars, raceVars, reqVars>>
Fet(A) == A /\ UNCHANGED <<dbVars, replyVars, tplVars, cliVars, tokVars, raceVars, reqVars>>
Race(A) == A /\ UNCHANGED <<tplVars, cliVars, tokVars, fetchVars, reqVars>>

FullToken(user_email) == [user_email |-> user_email, permissions |-> Permissions]

(***************************************************************************)
(* Spec: create, update, delete, get and list on the applications table.   *)
(***************************************************************************)
CrudTokens == {FullToken("u1@x")}

CrudCreateRequests ==
    [application_name : {"n1"}, application_identifier : Identifiers \cup {NULL},
     application_description : {""}, application_owner_email : {NULL},
     application_file : Files, application_config : Configs]

CrudUpdateRequests ==
    UpdateRequests({"application_name", "application_identifier"},
                   [application_name : {"n2"},
                    application_identifier : Identifiers \cup {NULL}])

Next ==
    \/ \E application \in CrudCreateRequests, token_payload \in CrudTokens :
            Api(applications_create(application, token_payload))
    \/ \E application_id \in AppIds, application \in CrudUpdateRequests,
          token_payload \in CrudTokens :
            Api(application_update(application_id, application, token_payload))
    \/ \E application_id \in AppIds, token_payload \in CrudTokens :
            Api(application_delete(application_id, token_payload))
    \/ \E application_id \in AppIds, token_payload \in CrudTokens :
            Api(applications_get_by_id(application_id, token_payload))
    \/ \E user \in BOOLEAN, all \in BOOLEAN, token_payload \in CrudTokens :
            Api(applications_list(user, all, token_payload))

Spec == Init /\ [][Next]_vars

\* C1: a create request whose application_identifier equals the non-null
\* identifier of an existing row is answered 409 and inserts no row: the
\* table after the request is the table before it.
C1_DuplicateIdentifierConflict ==
    [][\A application \in CrudCreateRequests, token_payload \in CrudTokens :
          (/\ last'.op = "applications_create"
           /\ Lockdown(token_payload, "applications_create")
           /\ application.application_identifier # NULL
           /\ \E r \in applications :
                 r.application_identifier = application.application_identifier
           /\ applications_create(application, token_payload))
          => (last'.status = 409 /\ applications' = applications)]_vars

C1_Witness ==
    /\ last.op = "applications_create"
    /\ last.status = 409
    /\ \E r \in applications : r.application_identifier # NULL

\* C9: in every state reached by create, update and delete requests no two
\* distinct rows share a non-null application_identifier (null identifiers
\* may repeat) and no two rows share an id.
C9_IdentifiersAndIdsUnique ==
    \A r1 \in applications, r2 \in applications :
        r1 # r2 =>
            /\ r1.id # r2.id
            /\ (r1.application_identifier # NULL =>
                    r1.application_identifier # r2.application_identifier)

C9_Witness ==
    /\ last.op = "application_update"
    /\ last.status = 201
    /\ Cardinality(applications) = 2
    /\ \A r \in applications : r.application_identifier # NULL

(***************************************************************************)
(* SpecUpdate: partial updates of applications and of job-script           *)
(* templates, with a database clock that advances between requests.        *)
(***************************************************************************)
UpdCreateRequests ==
    [application_name : {"n1"}, application_identifier : {NULL},
     application_description : {""}, application_owner_email : {NULL},
     application_file : Files, application_config : Configs]

UpdUpdateRequests ==
    UpdateRequests(UpdatableFields,
                   [application_name : {"n2"}, application_identifier : {"a"},
                    application_description : {"d1"}, application_file : Files,
                    application_config : Configs])

\* The row the update requests of this specification name.
UpdAppIds == {1}

UpdTemplateCreateRequests == [name : {"n1"}, identifier : {NULL, "a"}]

UpdTemplateUpdateRequests ==
    UpdateRequests({"name", "identifier"}, [name : {"n2"}, identifier : {"b"}])

UpdTemplateLocators == {ById(1), ByIdentifier("a")}

NextUpdate ==
    \/ \E application \in UpdCreateRequests, token_payload \in CrudTokens :
            Api(applications_create(application, token_payload))
    \/ \E application_id \in UpdAppIds, application \in UpdUpdateRequests,
          token_payload \in CrudTokens :
            Api(application_update(application_id, application, token_payload))
    \/ Api(Tick)
    \/ \E incoming_data \in UpdTemplateCreateRequests :
            Svc(JobScriptTemplateService_create(incoming_data, "u1@x"))
    \/ \E id_or_identifier \in UpdTemplateLocators,
          incoming_data \in UpdTemplateUpdateRequests :
            Svc(JobScriptTemplateService_update(id_or_identifier, incoming_data))

SpecUpdate == Init /\ [][NextUpdate]_vars

\* The row `new` is the row `old` after an update that set exactly the fields
\* of `request`: those fields hold the requested values and every other field
\* except those in `stamped` holds its prior value.
PartialUpdateOf(old, new, request, stamped) ==
    /\ \A k \in DOMAIN request : new[k] = request[k]
    /\ \A k \in DOMAIN old \ (DOMAIN request \cup stamped) : new[k] = old[k]

\* C3: after a successful update naming a subset S of the updatable fields,
\* each field of S has the requested value, every field outside S (id, owner
\* email, created_at, ...) keeps its prior value, no other row changes, and
\* updated_at is stamped with the server's clock and is not earlier than it was.
\* The same frame holds for JobScriptTemplateService.update.
C3_PartialUpdateFrame ==
    [][/\ \A application \in UpdUpdateRequests, token_payload \in CrudTokens :
            (/\ last'.op = "application_update"
             /\ last'.status = 201
             /\ application_update(last'.id, application, token_payload))
            => /\ Cardinality(applications') = Cardinality(applications)
               /\ \A old \in applications :
                     IF old.id = last'.id
                     THEN \E new \in applications' :
                             /\ PartialUpdateOf(old, new, application, {"updated_at"})
                             /\ new.updated_at = now
                             /\ new.updated_at >= old.updated_at
                     ELSE old \in applications'
       /\ \A id_or_identifier \in UpdTemplateLocators,
             incoming_data \in UpdTemplateUpdateRequests :
            (/\ last'.op = "template_update"
             /\ last'.status = 200
             /\ JobScriptTemplateService_update(id_or_identifier, incoming_data))
            => /\ Cardinality(job_script_templates') = Cardinality(job_script_templates)
               /\ \A old \in job_script_templates :
                     IF old.id = last'.id
                     THEN \E new \in job_script_templates' :
                             PartialUpdateOf(old, new, incoming_data, {})
                     ELSE old \in job_script_templates']_vars

C3_Witness ==
    /\ last.op = "application_update"
    /\ last.status = 201
    /\ Cardinality(applications) = 2
    /\ \E r \in applications :
          /\ r.id = last.id
          /\ r.updated_at > r.created_at
          /\ r.application_name = "n2"
          /\ r.application_description = ""

(***************************************************************************)
(* SpecStore: applications with their uploaded files and the job scripts   *)
(* and job submissions that depend on them.                                *)
(***************************************************************************)
ScriptIds == 1..MaxScripts

NextStore ==
    \/ \E application \in UpdCreateRequests, token_payload \in CrudTokens :
            Api(applications_create(application, token_payload))
    \/ \E application_id \in AppIds, upload_file \in Tarballs,
          content_length \in ContentLengths, token_payload \in CrudTokens :
            Api(applications_upload(application_id, upload_file, content_length,
                                    token_payload))
    \/ \E application_id \in AppIds, token_payload \in CrudTokens :
            Api(applications_delete(application_id, token_payload))
    \/ \E application_id \in AppIds, token_payload \in CrudTokens :
            Api(application_delete(application_id, token_payload))
    \/ \E application_id \in AppIds : Api(job_script_create(application_id))
    \/ \E job_script_id \in ScriptIds : Api(job_submission_create(job_script_id))
    \/ \E job_script_id \in ScriptIds : Api(job_script_delete(job_script_id))

SpecStore == Init /\ [][NextStore]_vars

\* C2: deleting an application that a job script still references (or a job
\* script that a job submission still references) fails with a foreign-key
\* error naming the referencing table, and the referenced row, the referencing
\* row and the application's blob in the object store are as they were.
C2_ReferencedDeleteRefused ==
    [][/\ \A application_id \in AppIds, token_payload \in CrudTokens :
            (/\ last'.op = "application_delete"
             /\ RowsById(applications, application_id) # {}
             /\ ApplicationReferenced(job_scripts, application_id)
             /\ application_delete(application_id, token_payload))
            => /\ last'.status = 409
               /\ last'.detail = "job_scripts"
               /\ applications' = applications
               /\ job_scripts' = job_scripts
               /\ s3' = s3
       /\ \A job_script_id \in ScriptIds :
            (/\ last'.op = "job_script_delete"
             /\ JobScriptReferenced(job_submissions, job_script_id)
             /\ job_script_delete(job_script_id))
            => /\ last'.status = 409
               /\ last'.detail = "job_submissions"
               /\ job_scripts' = job_scripts
               /\ job_submissions' = job_submissions]_vars

C2_Witness ==
    /\ last.op = "application_delete"
    /\ last.status = 409
    /\ ApplicationReferenced(job_scripts, last.id)
    /\ S3Has(s3, last.id)
    /\ \E r \in RowsById(applications, last.id) : r.application_uploaded

\* C5: an upload whose declared content length exceeds MAX_UPLOAD_FILE_SIZE is
\* answered 413; the object store holds exactly the blobs it held before and
\* no application row (its application_uploaded flag included) has changed, so
\* the size check precedes the first write to the store.
C5_OversizedUploadRejected ==
    [][\A application_id \in AppIds, upload_file \in Tarballs,
          content_length \in ContentLengths, token_payload \in CrudTokens :
          (/\ last'.op = "applications_upload"
           /\ content_length > MAX_UPLOAD_FILE_SIZE
           /\ applications_upload(application_id, upload_file, content_length,
                                  token_payload))
          => /\ last'.status = 413
             /\ s3' = s3
             /\ applications' = applications]_vars

C5_Witness ==
    /\ last.op = "applications_upload"
    /\ last.status = 413
    /\ \E r \in RowsById(applications, last.id) : ~r.application_uploaded
    /\ ~S3Has(s3, last.id)

(***************************************************************************)
(* SpecPerm: every applications endpoint, called with every combination of *)
(* the applications permissions.                                           *)
(***************************************************************************)
PermTokens == [user_email : {"u1@x"}, permissions : SUBSET Permissions]

PermUpdateRequests ==
    UpdateRequests({"application_name"}, [application_name : {"n2"}])

NextPerm ==
    \/ \E application \in UpdCreateRequests, token_payload \in PermTokens :
            Api(applications_create(application, token_payload))
    \/ \E application_id \in AppIds, upload_file \in {"t1"},
          content_length \in {MAX_UPLOAD_FILE_SIZE}, token_payload \in PermTokens :
            Api(applications_upload(application_id, upload_file, content_length,
                                    token_payload))
    \/ \E application_id \in AppIds, token_payload \in PermTokens :
            Api(applications_delete(application_id, token_payload))
    \/ \E application_id \in AppIds, token_payload \in PermTokens :
            Api(application_delete(application_id, token_payload))
    \/ \E application_id \in AppIds, application \in PermUpdateRequests,
          token_payload \in PermTokens :
            Api(application_update(application_id, application, token_payload))
    \/ \E user \in BOOLEAN, all \in BOOLEAN, token_payload \in PermTokens :
            Api(applications_list(user, all, token_payload))
    \/ \E application_id \in AppIds, token_payload \in PermTokens :
            Api(applications_get_by_id(application_id, token_payload))

SpecPerm == Init /\ [][NextPerm]_vars

\* The step is a request made with token_payload to one of the endpoints that
\* need the edit permission / the view permission.
EditRequest(token_payload) ==
    \/ \E application \in UpdCreateRequests :
            applications_create(application, token_payload)
    \/ \E application_id \in AppIds :
            \/ applications_upload(application_id, "t1", MAX_UPLOAD_FILE_SIZE, token_payload)
            \/ applications_delete(application_id, token_payload)
            \/ application_delete(application_id, token_payload)
            \/ \E application \in PermUpdateRequests :
                    application_update(application_id, application, token_payload)

ViewRequest(token_payload) ==
    \/ \E user \in BOOLEAN, all \in BOOLEAN : applications_list(user, all, token_payload)
    \/ \E application_id \in AppIds : applications_get_by_id(application_id, token_payload)

\* C10: a request whose token lacks the edit permission is rejected (403) by
\* create, upload, delete-upload, delete and update, and leaves the table and
\* the object store unchanged; a request whose token lacks the view permission
\* is rejected by list and get-by-id and is given no row; a request whose
\* token holds the view permission alone never changes the table or the store.
C10_PermissionScopes ==
    [][\A token_payload \in PermTokens :
          /\ (APPLICATIONS_EDIT \notin token_payload.permissions
                /\ EditRequest(token_payload))
             => (last'.status = 403 /\ applications' = applications /\ s3' = s3)
          /\ (APPLICATIONS_VIEW \notin token_payload.permissions
                /\ ViewRequest(token_payload))
             => (last'.status = 403 /\ response' = {})
          /\ (token_payload.permissions = {APPLICATIONS_VIEW}
                /\ (EditRequest(token_payload) \/ ViewRequest(token_payload)))
             => (applications' = applications /\ s3' = s3)]_vars

C10_Witness ==
    /\ last.op = "application_delete"
    /\ last.status = 403
    /\ RowsById(applications, last.id) # {}
    /\ S3Has(s3, last.id)

(***************************************************************************)
(* SpecList: applications and job-script templates of two owners, listed   *)
(* with every combination of the list filters.                             *)
(***************************************************************************)
ListTokens == {FullToken(user_email) : user_email \in Emails}

ListCreateRequests ==
    [application_name : {"n1"}, application_identifier : {NULL, "a"},
     application_description : {""}, application_owner_email : {NULL},
     application_file : Files, application_config : Configs]

ListSearches == {NULL, "a"}

NextList ==
    \/ \E application \in ListCreateRequests, token_payload \in ListTokens :
            Api(applications_create(application, token_payload))
    \/ \E user \in BOOLEAN, all \in BOOLEAN, token_payload \in ListTokens :
            Api(applications_list(user, all, token_payload))
    \/ \E incoming_data \in UpdTemplateCreateRequests, owner_email \in Emails :
            Svc(JobScriptTemplateService_create(incoming_data, owner_email))
    \/ \E all \in BOOLEAN, user_email \in Emails \cup {NULL}, search \in ListSearches :
            Svc(JobScriptTemplateService_list(all, user_email, search))

SpecList == Init /\ [][NextList]_vars

OwnedApplications(user_email) ==
    {r \in applications : r.application_owner_email = user_email}

OwnedTemplates(user_email) ==
    {r \in job_script_templates : r.owner_email = user_email}

\* C4 as stated: a list request with the owner-only filter set returns
\* exactly the rows whose owner email is the caller's, whatever the other
\* filters of the request are.
C4_OwnerOnlyListExact ==
    [][/\ \A all \in BOOLEAN, token_payload \in ListTokens :
            (last'.op = "applications_list"
                /\ applications_list(TRUE, all, token_payload))
            => response' = OwnedApplications(token_payload.user_email)
       /\ \A all \in BOOLEAN, user_email \in Emails, search \in ListSearches :
            (last'.op = "template_list"
                /\ JobScriptTemplateService_list(all, user_email, search))
            => response' = OwnedTemplates(user_email)]_vars

\* C4 amended: a list request with the owner-only filter set returns no row of
\* another owner, and returns every row of the caller that the request's other
\* filters admit (a row without identifier only when all is set; for templates
\* also only the rows matching the search text); with all set and no search
\* text it returns exactly the caller's rows.
C4_OwnerOnlyListAmended ==
    [][/\ \A all \in BOOLEAN, token_payload \in ListTokens :
            (last'.op = "applications_list"
                /\ applications_list(TRUE, all, token_payload))
            => /\ response' \subseteq OwnedApplications(token_payload.user_email)
               /\ \A r \in OwnedApplications(token_payload.user_email) :
                     (all \/ r.application_identifier # NULL) => r \in response'
               /\ all => response' = OwnedApplications(token_payload.user_email)
       /\ \A all \in BOOLEAN, user_email \in Emails, search \in ListSearches :
            (last'.op = "template_list"
                /\ JobScriptTemplateService_list(all, user_email, search))
            => /\ response' \subseteq OwnedTemplates(user_email)
               /\ \A r \in OwnedTemplates(user_email) :
                     ((all \/ r.identifier # NULL)
                        /\ (search = NULL \/ SearchClause(r, search))) => r \in response'
               /\ (all /\ search = NULL) => response' = OwnedTemplates(user_email)]_vars

C4_Witness ==
    /\ last.op = "applications_list"
    /\ \E r \in response : r.application_identifier = NULL
    /\ \E r \in response, o \in applications \ response :
          o.application_owner_email # r.application_owner_email

(***************************************************************************)
(* SpecFiles: the files of job-script templates, upserted and deleted.     *)
(***************************************************************************)
FileBodies == {"b1", "b2"}

FilesTemplateCreateRequests == [name : {"n1"}, identifier : {NULL}]

NextFiles ==
    \/ \E incoming_data \in FilesTemplateCreateRequests :
            Svc(JobScriptTemplateService_create(incoming_data, "u1@x"))
    \/ \E job_script_template_id \in TemplateIds, file_type \in FileTypes,
          filename \in Filenames, file \in FileBodies :
            Svc(JobScriptTemplateFilesService_upsert(job_script_template_id, file_type,
                                                     filename, file))
    \/ \E template_file \in template_files :
            Svc(JobScriptTemplateFilesService_delete(template_file))
    \/ \E job_script_template_id \in TemplateIds, runtime_config \in RuntimeConfigs :
            Svc(WorkflowFilesService_upsert(job_script_template_id, runtime_config, "b1"))

SpecFiles == Init /\ [][NextFiles]_vars

\* The file rows and the blobs that belong to (template id, filename),
\* whatever else their key or their columns hold.
FileRowsOf(rows, id, filename) == {r \in rows : r.id = id /\ r.filename = filename}

BlobsOf(objects, table, id, filename) ==
    {o \in objects : o.key[1] = table /\ o.key[2] = id /\ o.key[3] = filename}

MaxPieces == 2      \* pieces of a template file

RenderPieces == {Lit("#SBATCH"), Var("job_name"), Attr("data", "job_name")}

RenderBodies == UNION {[1..n -> RenderPieces] : n \in 1..MaxPieces}

RenderParameters ==
    UpdateRequests({"job_name", "data"},
                   [job_name : {Scalar("rats")},
                    data : {Dict([job_name |-> "rats"]), Dict([partition |-> "debug"])}])

NextRender ==
    \/ \E incoming_data \in FilesTemplateCreateRequests :
            Svc(JobScriptTemplateService_create(incoming_data, "u1@x"))
    \/ \E file \in RenderBodies :
            Svc(JobScriptTemplateFilesService_upsert(1, "ENTRYPOINT", "a.j2", file))
    \/ \E template_file \in template_files, parameters \in RenderParameters :
            Svc(JobScriptTemplateFilesService_render(template_file, parameters))

SpecRender == Init /\ [][NextRender]_vars

\* The placeholders of a template file name these parameters.
PlaceholderNames(file_content) ==
    {file_content[i].name : i \in {j \in DOMAIN file_content : file_content[j].kind # "text"}}

\* C7: whenever the rendered template contains a placeholder whose name is
\* not a key of the parameter mapping, render raises a rendering error and
\* returns no text.
C7_MissingPlaceholderRaises ==
    (/\ render_out.status # "none"
     /\ \E n \in PlaceholderNames(render_out.template) :
            n \notin DOMAIN render_out.parameters)
    => (render_out.status = "error" /\ render_out.text = <<>>)

(***************************************************************************)
(* SpecMerge: the CLI assembles the param_dict of one render request.      *)
(***************************************************************************)
\* A mapping of some of the parameter keys, every key mapped to `value`.
ParamMaps(value) == {[k \in S |-> value] : S \in SUBSET ParamKeys}

MergeConfigs == {[default_template |-> "job.j2"],
                 [default_template |-> "job.j2", foo |-> "default"]}

NextMerge ==
    \/ \E config \in MergeConfigs, prepared_input \in ParamMaps("answer"),
          param_file \in ParamMaps("file"), fast \in BOOLEAN :
            Cli(create_job_script(config, prepared_input, param_file, fast))

SpecMerge == Init /\ [][NextMerge]_vars

\* C6: in the param_dict of the render request, every key that is both in the
\* parameter file and in the interactive answers has the parameter file's
\* value, and every answered key absent from the parameter file has the answer.
C6_ParamFileOverridesAnswers ==
    render_request.state = "sent" =>
        /\ \A k \in DOMAIN render_request.param_file \cap DOMAIN render_request.answers :
              render_request.param_dict[k] = render_request.param_file[k]
        /\ \A k \in DOMAIN render_request.answers \ DOMAIN render_request.param_file :
              render_request.param_dict[k] = render_request.answers[k]

C6_Witness ==
    /\ render_request.state = "sent"
    /\ "foo" \in DOMAIN render_request.param_file \cap DOMAIN render_request.answers
    /\ "bar" \in DOMAIN render_request.answers \ DOMAIN render_request.param_file
    /\ render_request.param_dict["foo"] = "file"
    /\ render_request.param_dict["bar"] = "answer"

\* C12: for an application id that matches no row, get-by-id, delete and
\* delete-upload each answer 404, return no row, and leave the object store
\* (no object is removed, even when one is stored under that id) and the
\* applications table as they were.
C12_MissingRowNotFound ==
    [][\A application_id \in AppIds, token_payload \in PermTokens :
          (/\ RowsById(applications, application_id) = {}
           /\ \/ /\ last'.op = "applications_get_by_id"
                 /\ Lockdown(token_payload, "applications_get_by_id")
                 /\ applications_get_by_id(application_id, token_payload)
              \/ /\ last'.op = "application_delete"
                 /\ Lockdown(token_payload, "application_delete")
                 /\ application_delete(application_id, token_payload)
              \/ /\ last'.op = "applications_delete"
                 /\ Lockdown(token_payload, "applications_delete")
                 /\ applications_delete(application_id, token_payload))
          => /\ last'.status = 404
             /\ response' = {}
             /\ s3' = s3
             /\ applications' = applications]_vars

C12_Witness ==
    /\ last.op = "applications_delete"
    /\ last.status = 404
    /\ RowsById(applications, last.id) = {}
    /\ S3Has(s3, last.id)
    /\ applications # {}

(***************************************************************************)
(* SpecConflict: creates and updates that compete for identifiers, with a  *)
(* database clock that advances between requests.                          *)
(***************************************************************************)
NextConflict ==
    \/ \E application \in CrudCreateRequests, token_payload \in CrudTokens :
            Api(applications_create(application, token_payload))
    \/ \E application_id \in AppIds, application \in CrudUpdateRequests,
          token_payload \in CrudTokens :
            Api(application_update(application_id, application, token_payload))
    \/ Api(Tick)

SpecConflict == Init /\ [][NextConflict]_vars

\* C13: an update of an application id that matches no row is answered 404
\* and changes no row.
C13_UpdateMissingRowNotFound ==
    [][\A application_id \in AppIds, application \in CrudUpdateRequests,
          token_payload \in CrudTokens :
          (/\ last'.op = "application_update"
           /\ RowsById(applications, application_id) = {}
           /\ application_update(application_id, application, token_payload))
          => (last'.status = 404 /\ applications' = applications)]_vars

\* C15: an update that sets application_identifier to a value held by a
\* different row is answered 409 and leaves every row as it was, the targeted
\* row and its updated_at included.
C15_ConflictingUpdateLeavesNoTrace ==
    [][\A application_id \in AppIds, application \in CrudUpdateRequests,
          token_payload \in CrudTokens :
          (/\ last'.op = "application_update"
           /\ RowsById(applications, application_id) # {}
           /\ "application_identifier" \in DOMAIN application
           /\ \E r \in applications :
                 /\ r.id # application_id
                 /\ r.application_identifier # NULL
                 /\ r.application_identifier = application.application_identifier
           /\ application_update(application_id, application, token_payload))
          => (last'.status = 409 /\ applications' = applications)]_vars

C15_Witness ==
    /\ last.op = "application_update"
    /\ last.status = 409
    /\ Cardinality(applications) = 2
    /\ \E r \in RowsById(applications, last.id) :
          r.updated_at < now /\ r.application_name = "n1"

\* C14: an upload for an application id that matches no row is answered 404
\* and writes nothing to the object store.
C14_UploadMissingRowNotFound ==
    [][\A application_id \in AppIds, upload_file \in Tarballs,
          content_length \in ContentLengths, token_payload \in CrudTokens :
          (/\ last'.op = "applications_upload"
           /\ RowsById(applications, application_id) = {}
           /\ content_length <= MAX_UPLOAD_FILE_SIZE
           /\ applications_upload(application_id, upload_file, content_length,
                                  token_payload))
          => (last'.status = 404 /\ s3' = s3)]_vars

(***************************************************************************)
(* The server process stops inside a handler, between its write to the     *)
(* object store and its write to the database. The request gets no answer. *)
(***************************************************************************)
\* mutant: the store write is undone when the process stops
applications_upload_crashed_undone(application_id, upload_file, content_length, token_payload) ==
    /\ Lockdown(token_payload, "applications_upload")
    /\ content_length <= MAX_UPLOAD_FILE_SIZE
    /\ last' = Reply("applications_upload", application_id, 0, "crashed")
    /\ response' = {}
    /\ UNCHANGED <<applications, app_seq, now, s3, job_scripts, job_submissions>>

\* applications_upload, stopped after s3man.put and before the UPDATE
applications_upload_crashed(application_id, upload_file, content_length, token_payload) ==
    /\ Lockdown(token_payload, "applications_upload")
    /\ content_length <= MAX_UPLOAD_FILE_SIZE
    /\ s3' = S3Put(s3, upload_file, application_id)
    /\ last' = Reply("applications_upload", application_id, 0, "crashed")
    /\ response' = {}
    /\ UNCHANGED <<applications, app_seq, now, job_scripts, job_submissions>>

\* applications_delete, stopped after s3man.delete and before the UPDATE
applications_delete_crashed(application_id, token_payload) ==
    /\ Lockdown(token_payload, "applications_delete")
    /\ \E r \in RowsById(applications, application_id) : r.application_uploaded
    /\ S3Has(s3, application_id)
    /\ s3' = S3Delete(s3, application_id)
    /\ last' = Reply("applications_delete", application_id, 0, "crashed")
    /\ response' = {}
    /\ UNCHANGED <<applications, app_seq, now, job_scripts, job_submissions>>

\* application_delete, stopped after the DELETE and before s3man.delete
application_delete_crashed(application_id, token_payload) ==
    /\ Lockdown(token_payload, "application_delete")
    /\ RowsById(applications, application_id) # {}
    /\ ~ApplicationReferenced(job_scripts, application_id)
    /\ applications' = applications \ RowsById(applications, application_id)
    /\ last' = Reply("application_delete", application_id, 0, "crashed")
    /\ response' = {}
    /\ UNCHANGED <<app_seq, now, s3, job_scripts, job_submissions>>

\* JobScriptTemplateFilesService.delete, stopped after delete_object and
\* before the flush that would emit the row's DELETE
JobScriptTemplateFilesService_delete_crashed(template_file) ==
    /\ template_file \in template_files
    /\ bucket' = DeleteObject(bucket, TemplateFileKey(template_file.id, template_file.filename))
    /\ last' = Reply("file_delete", template_file.id, 0, "crashed")
    /\ response' = {}
    /\ UNCHANGED <<job_script_templates, tpl_seq, template_files, workflow_files, render_out>>

(***************************************************************************)
(* SpecCrash: uploads and deletes of application files and template files, *)
(* any of which may be cut short by the process stopping.                  *)
(***************************************************************************)
CrashTemplateFiles == [id : {1}, filename : {"a.j2"}, file_type : {"ENTRYPOINT"}]

NextCrash ==
    \/ \E application \in UpdCreateRequests, token_payload \in CrudTokens :
            Api(applications_create(application, token_payload))
    \/ \E application_id \in AppIds, token_payload \in CrudTokens :
            Api(applications_upload(application_id, "t1", MAX_UPLOAD_FILE_SIZE,
                                    token_payload))
    \/ \E application_id \in AppIds, token_payload \in CrudTokens :
            Api(applications_upload_crashed(application_id, "t1", MAX_UPLOAD_FILE_SIZE,
                                            token_payload))
    \/ \E application_id \in AppIds, token_payload \in CrudTokens :
            Api(applications_delete(application_id, token_payload))
    \/ \E application_id \in AppIds, token_payload \in CrudTokens :
            Api(applications_delete_crashed(application_id, token_payload))
    \/ \E application_id \in AppIds, token_payload \in CrudTokens :
            Api(application_delete(application_id, token_payload))
    \/ \E application_id \in AppIds, token_payload \in CrudTokens :
            Api(application_delete_crashed(application_id, token_payload))
    \/ \E application_id \in AppIds, token_payload \in CrudTokens :
            Api(applications_get_by_id(application_id, token_payload))
    \/ \E application_id \in AppIds : Api(job_script_create(application_id))
    \/ \E incoming_data \in FilesTemplateCreateRequests :
            Svc(JobScriptTemplateService_create(incoming_data, "u1@x"))
    \/ \E template_file \in CrashTemplateFiles :
            Svc(JobScriptTemplateFilesService_upsert(template_file.id, template_file.file_type,
                                                     template_file.filename, "b1"))
    \/ \E template_file \in template_files :
            Svc(JobScriptTemplateFilesService_delete(template_file))
    \/ \E template_file \in template_files :
            Svc(JobScriptTemplateFilesService_delete_crashed(template_file))

SpecCrash == Init /\ [][NextCrash]_vars

\* C16: a successful DELETE of an application (no job script depends on it)
\* leaves neither the row nor a blob under its id; the delete succeeds with
\* 204 and removes the row also when the store holds no blob for it; and the
\* row goes first: a delete cut short after its first write has removed the
\* row and left the store as it was, so no step of a delete removes the blob
\* while the row remains. A completed delete of a template file likewise
\* leaves neither its row nor its blob.
C16_DeleteRemovesRowThenBlob ==
    [][/\ \A application_id \in AppIds, token_payload \in CrudTokens :
            /\ (/\ last'.op = "application_delete"
                /\ RowsById(applications, application_id) # {}
                /\ ~ApplicationReferenced(job_scripts, application_id)
                /\ application_delete(application_id, token_payload))
               => /\ last'.status = 204
                  /\ RowsById(applications', application_id) = {}
                  /\ ~S3Has(s3', application_id)
                  /\ applications' = applications \ RowsById(applications, application_id)
            /\ (/\ last'.op = "application_delete"
                /\ application_delete_crashed(application_id, token_payload))
               => /\ RowsById(applications', application_id) = {}
                  /\ s3' = s3
       /\ last'.op = "application_delete"
            => \A application_id \in AppIds :
                  (S3Has(s3, application_id) /\ ~S3Has(s3', application_id))
                     => RowsById(applications', application_id) = {}
       /\ \A template_file \in template_files :
            (/\ last'.op = "file_delete"
             /\ JobScriptTemplateFilesService_delete(template_file))
            => /\ template_file \notin template_files'
               /\ BlobsOf(bucket', "job_script_template_files", template_file.id,
                          template_file.filename) = {}]_vars

\* A delete answered 204 for an id whose row was flagged as uploaded while the
\* store held no blob: the state before it is kept in last only as the answer,
\* so the witness is the state after it, with the other application still
\* flagged as uploaded and without blob.
C16_Witness ==
    /\ last.op = "application_delete"
    /\ last.status = 204
    /\ RowsById(applications, last.id) = {}
    /\ ~S3Has(s3, last.id)
    /\ \E r \in applications : r.application_uploaded /\ ~S3Has(s3, r.id)

\* An object is stored under the id but no row of that id is flagged as uploaded.
OrphanedBlob(rows, store, application_id) ==
    /\ S3Has(store, application_id)
    /\ \A r \in RowsById(rows, application_id) : ~r.application_uploaded

\* A row is flagged as uploaded but no object is stored under its id.
MissingBlob(rows, store, application_id) ==
    /\ ~S3Has(store, application_id)
    /\ \E r \in RowsById(rows, application_id) : r.application_uploaded

\* A template-file row whose blob is not in the bucket.
MissingTemplateBlob(rows, objects, template_file) ==
    /\ template_file \in rows
    /\ BlobsOf(objects, "job_script_template_files", template_file.id,
               template_file.filename) = {}

\* C17: the writes to the object store and to the database are not atomic
\* together. An upload cut short between its two writes leaves the blob stored
\* with the row's application_uploaded flag as it was (an orphaned blob when it
\* was not set); a delete-upload cut short leaves the row flagged as uploaded
\* with no blob; a template-file delete cut short leaves the row with no blob.
\* Nothing repairs these states unasked: an orphaned blob stays until a
\* new upload or a delete of that application, a missing blob stays until a
\* new upload or a delete of that application, and a template file's missing
\* blob stays until a new upsert or a delete of that file; in particular
\* delete-upload repairs neither.
C17_CrashLeavesInconsistency ==
    [][/\ \A application_id \in AppIds, token_payload \in CrudTokens :
            /\ (/\ last'.detail = "crashed"
                /\ last'.op = "applications_upload"
                /\ applications_upload_crashed(application_id, "t1", MAX_UPLOAD_FILE_SIZE,
                                               token_payload))
               => /\ applications' = applications
                  /\ S3Has(s3', application_id)
                  /\ (\A r \in RowsById(applications, application_id) :
                            ~r.application_uploaded)
                        => OrphanedBlob(applications', s3', application_id)
            /\ (/\ last'.detail = "crashed"
                /\ last'.op = "applications_delete"
                /\ applications_delete_crashed(application_id, token_payload))
               => MissingBlob(applications', s3', application_id)
       /\ \A template_file \in template_files :
            (/\ last'.detail = "crashed"
             /\ last'.op = "file_delete"
             /\ JobScriptTemplateFilesService_delete_crashed(template_file))
            => MissingTemplateBlob(template_files', bucket', template_file)
       /\ \A application_id \in AppIds :
            ~(last'.id = application_id
                /\ last'.op \in {"applications_upload", "application_delete"})
            => /\ OrphanedBlob(applications, s3, application_id)
                    => OrphanedBlob(applications', s3', application_id)
               /\ MissingBlob(applications, s3, application_id)
                    => MissingBlob(applications', s3', application_id)
       /\ \A template_file \in template_files :
            ~(last'.id = template_file.id /\ last'.op \in {"file_upsert", "file_delete"})
            => (MissingTemplateBlob(template_files, bucket, template_file)
                    => MissingTemplateBlob(template_files', bucket', template_file))]_vars

C17_Witness ==
    /\ last.op = "applications_delete"
    /\ last.status = 500
    /\ MissingBlob(applications, s3, last.id)
    /\ \E application_id \in AppIds : OrphanedBlob(applications, s3, application_id)
    /\ \E template_file \in template_files :
          MissingTemplateBlob(template_files, bucket, template_file)

(***************************************************************************)
(* SpecCli: logins, logouts and commands of the CLI against a token cache  *)
(* whose access tokens expire.                                             *)
(***************************************************************************)
LoginTokens == AccessTokens \cup MalformedTokens \cup NoIdentityTokens

NextCli ==
    \/ \E command \in Commands, refresh_response \in RefreshResponses,
          body \in BodyOutcomes, sentry_dsn \in BOOLEAN :
            Tok(run_command(command, refresh_response, body, sentry_dsn))
    \/ \E token \in LoginTokens : Tok(login_with_token(token))
    \/ \E device_response \in DeviceResponses : Tok(login_device(device_response))
    \/ Tok(logout)
    \/ \E token \in AccessTokens : Tok(Expire(token))

SpecCli == Init /\ [][NextCli]_vars

\* C11: a command other than login and logout that starts with an expired
\* cached access token and a cached refresh token posts that refresh token to
\* the auth server; when the server grants an access token that validates,
\* the command runs with the new token and the new token is written to the
\* cache (otherwise the command does not run and the cache is as it was); the
\* cached refresh token is left as it was either way. A command that starts
\* from a cached access token that is not expired, the refreshed one
\* included, runs with it and asks for no refresh.
C11_ExpiredTokenRefreshed ==
    [][\A command \in Commands, refresh_response \in RefreshResponses,
          body \in BodyOutcomes, sentry_dsn \in BOOLEAN :
          /\ (/\ cli'.command = command
              /\ ValidateToken(token_cache.access_token, expired) = "expired"
              /\ token_cache.refresh_token # NULL
              /\ run_command(command, refresh_response, body, sentry_dsn))
             => /\ cli'.refresh_sent = token_cache.refresh_token
                /\ token_cache'.refresh_token = token_cache.refresh_token
                /\ IF /\ refresh_response.status_code = 200
                      /\ ValidateToken(refresh_response.access_token, expired) = "ok"
                   THEN /\ cli'.outcome = "ran"
                        /\ cli'.api_built
                        /\ cli'.token = refresh_response.access_token
                        /\ token_cache'.access_token = refresh_response.access_token
                   ELSE /\ cli'.outcome # "ran"
                        /\ ~cli'.api_built
                        /\ token_cache' = token_cache
          /\ (/\ cli'.command = command
              /\ ValidateToken(token_cache.access_token, expired) = "ok"
              /\ run_command(command, refresh_response, body, sentry_dsn))
             => /\ cli'.outcome = "ran"
                /\ cli'.token = token_cache.access_token
                /\ cli'.refresh_sent = NULL
                /\ token_cache' = token_cache]_vars

C11_Witness ==
    /\ cli.outcome = "ran"
    /\ cli.refresh_sent \in RefreshTokens
    /\ token_cache = TokenSet(cli.token, cli.refresh_sent)
    /\ cli.token \notin expired
    /\ expired # {}

\* C18 as stated: whenever the body of a wrapped command raises, the
\* exception is reported to the error-tracking service, the process exits with
\* code 1 and no command result is printed; whenever the body returns, the
\* process does not exit through the error path.
C18_ExceptionsReportedAndExitOne ==
    cli.outcome = "ran" =>
        IF cli.body = "raises"
        THEN cli.reported /\ cli.exit_code = 1 /\ cli.printed # "result"
        ELSE cli.exit_code = 0 /\ ~cli.reported

\* C18 amended: when the body of a wrapped command raises, the process exits
\* with code 1 and no command result is printed, and the exception is reported
\* to the error-tracking service exactly when settings.SENTRY_DSN is set; when
\* the body returns, the result (or the no-data notice) is printed, nothing is
\* reported and the process does not exit through the error path.
C18_ExceptionsExitOneReportedIfConfigured ==
    [][\A command \in Commands, refresh_response \in RefreshResponses,
          body \in BodyOutcomes, sentry_dsn \in BOOLEAN :
          (/\ cli'.command = command
           /\ cli'.outcome = "ran"
           /\ run_command(command, refresh_response, body, sentry_dsn))
          => IF CommandBody(command, body) = "raises"
             THEN /\ cli'.exit_code = 1
                  /\ cli'.printed = "error"
                  /\ cli'.reported = sentry_dsn
             ELSE /\ cli'.exit_code = 0
                  /\ cli'.printed = (IF body = "result" THEN "result"
                                     ELSE "Received no data")
                  /\ ~cli'.reported]_vars

C18_Witness ==
    /\ cli.outcome = "ran"
    /\ cli.body = "raises"
    /\ cli.exit_code = 1
    /\ ~cli.reported

\* C19: a successful login --token T leaves T as the cached access token and
\* no cached refresh token, whatever the cache held; from then until a login
\* without explicit token succeeds the cache holds no refresh token, and a
\* command that starts from an expired access token sends no refresh request,
\* aborts asking to log in again, and leaves the cache as it was.
C19_ExplicitTokenNeverRefreshed ==
    [][/\ \A token \in AccessTokens \cup MalformedTokens :
            (/\ cli'.command = "login"
             /\ cli'.outcome = "logged_in"
             /\ login_with_token(token))
            => token_cache' = TokenSet(token, NULL)
       /\ explicit_login' => token_cache'.refresh_token = NULL
       /\ \A command \in Commands, refresh_response \in RefreshResponses,
             body \in BodyOutcomes, sentry_dsn \in BOOLEAN :
            (/\ cli'.command = command
             /\ explicit_login
             /\ ValidateToken(token_cache.access_token, expired) = "expired"
             /\ run_command(command, refresh_response, body, sentry_dsn))
            => /\ cli'.outcome = "expired_login_again"
               /\ cli'.refresh_sent = NULL
               /\ ~cli'.api_built
               /\ token_cache' = token_cache]_vars

C19_Witness ==
    /\ explicit_login
    /\ cli.outcome = "expired_login_again"
    /\ token_cache.access_token \in expired
    /\ token_cache.refresh_token = NULL

\* C20: a command other than login and logout that starts with no cached
\* access token aborts with the please-login message: no API client is built,
\* no request is sent, no command body runs and the cache stays empty. Logout
\* removes both cached tokens, and login and logout never end with the
\* please-login message, whatever the cache holds.
C20_NoTokenNoCommand ==
    [][/\ \A command \in Commands, refresh_response \in RefreshResponses,
             body \in BodyOutcomes, sentry_dsn \in BOOLEAN :
            (/\ cli'.command = command
             /\ token_cache.access_token = NULL
             /\ run_command(command, refresh_response, body, sentry_dsn))
            => /\ cli'.outcome = "please_login"
               /\ ~cli'.api_built
               /\ cli'.refresh_sent = NULL
               /\ cli'.body = NULL
               /\ cli'.exit_code = 1
               /\ token_cache' = token_cache
       /\ (cli'.command = "logout" /\ logout)
            => (cli'.outcome = "logged_out" /\ token_cache' = TokenSet(NULL, NULL))
       /\ cli'.command \in {"login", "logout"} => cli'.outcome # "please_login"
       /\ \A token \in AccessTokens :
            (/\ cli'.command = "login"
             /\ token_cache.access_token = NULL
             /\ token \notin expired
             /\ login_with_token(token))
            => cli'.outcome = "logged_in"]_vars

C20_Witness ==
    /\ cli.outcome = "please_login"
    /\ explicit_login
    /\ token_cache = TokenSet(NULL, NULL)


(***************************************************************************)
(* SpecLocate: job-script templates whose identifiers are strings of       *)
(* digits, located by id, by identifier and by a value of another type.    *)
(***************************************************************************)
LocTemplateCreateRequests == [name : {"n1"}, identifier : {NULL, "1", "2"}]

LocTemplateUpdateRequests == UpdateRequests({"name"}, [name : {"n2"}])

LocateArguments ==
    {ById(id) : id \in TemplateIds} \cup {ByIdentifier(s) : s \in {"1", "2"}}
    \cup {ByOther("float", "1.0"), ByOther("NoneType", NULL)}

NextLocate ==
    \/ \E incoming_data \in LocTemplateCreateRequests :
            Svc(JobScriptTemplateService_create(incoming_data, "u1@x"))
    \/ \E id_or_identifier \in LocateArguments :
            Svc(JobScriptTemplateService_get(id_or_identifier))
    \/ \E id_or_identifier \in LocateArguments,
          incoming_data \in LocTemplateUpdateRequests :
            Svc(JobScriptTemplateService_update(id_or_identifier, incoming_data))
    \/ \E id_or_identifier \in LocateArguments :
            Svc(JobScriptTemplateService_delete(id_or_identifier))

SpecLocate == Init /\ [][NextLocate]_vars

\* The rows an argument ought to select: a string those whose identifier it
\* is, an integer those whose id it is; a value of another type none.
RowsNamedBy(rows, id_or_identifier) ==
    CASE id_or_identifier.type = "str" ->
            {r \in rows : r.identifier = id_or_identifier.value}
      [] id_or_identifier.type = "int" ->
            {r \in rows : r.id = id_or_identifier.value}
      [] OTHER -> {}

\* C21: get, update and delete of JobScriptTemplateService locate by one
\* strategy chosen by the argument's type: the executed query selects on the
\* identifier column for a string and on the id column for an integer, so a
\* string of digits never selects the row whose id it spells; get returns the
\* single matching row or none, update changes and delete removes that row
\* and no other; an argument of another type raises ValueError, no query is
\* executed and no row changes.
C21_LocateByTypeOfArgument ==
    [][\A id_or_identifier \in LocateArguments :
          LET named == RowsNamedBy(job_script_templates, id_or_identifier)
              typed == id_or_identifier.type \in {"str", "int"}
          IN  /\ (last'.op = "template_get" /\ JobScriptTemplateService_get(id_or_identifier))
                 => /\ job_script_templates' = job_script_templates
                    /\ IF typed
                       THEN /\ last'.status = 200
                            /\ last'.detail = (IF id_or_identifier.type = "str"
                                               THEN "identifier" ELSE "id")
                            /\ response' = named
                            /\ Cardinality(response') <= 1
                       ELSE /\ last'.detail = "ValueError"
                            /\ response' = {}
              /\ \A incoming_data \in LocTemplateUpdateRequests :
                    (/\ last'.op = "template_update"
                     /\ JobScriptTemplateService_update(id_or_identifier, incoming_data))
                    => /\ job_script_templates \ named \subseteq job_script_templates'
                       /\ typed => last'.detail # "ValueError"
                       /\ ~typed => /\ last'.detail = "ValueError"
                                    /\ job_script_templates' = job_script_templates
              /\ (last'.op = "template_delete"
                    /\ JobScriptTemplateService_delete(id_or_identifier))
                 => /\ job_script_templates' = job_script_templates \ named
                    /\ typed => last'.detail # "ValueError"
                    /\ ~typed => last'.detail = "ValueError"]_vars

\* get("1") returned the row whose identifier is "1" while another row has
\* the id 1.
C21_Witness ==
    /\ last.op = "template_get"
    /\ last.detail = "identifier"
    /\ \E r \in response : r.identifier = "1" /\ r.id = 2
    /\ \E r \in job_script_templates \ response : r.id = 1 /\ r.identifier = "2"


\* C22: the list filters combine conjunctively. With all unset the listed
\* rows all have an identifier, with all set rows are listed whether or not
\* they have one, and with the owner filter set as well the listed rows are
\* exactly those that pass both; for templates a search text is a third
\* condition of the same conjunction. Listing changes no row.
C22_ListFiltersConjunctive ==
    [][/\ \A user \in BOOLEAN, all \in BOOLEAN, token_payload \in ListTokens :
            (last'.op = "applications_list"
                /\ applications_list(user, all, token_payload))
            => /\ applications' = applications
               /\ ~all => \A r \in response' : r.application_identifier # NULL
               /\ (all /\ ~user) => response' = applications
               /\ response' =
                    {r \in applications :
                        /\ user => r.application_owner_email = token_payload.user_email
                        /\ ~all => r.application_identifier # NULL}
       /\ \A all \in BOOLEAN, user_email \in Emails \cup {NULL}, search \in ListSearches :
            (last'.op = "template_list"
                /\ JobScriptTemplateService_list(all, user_email, search))
            => /\ job_script_templates' = job_script_templates
               /\ ~all => \A r \in response' : r.identifier # NULL
               /\ (all /\ user_email = NULL /\ search = NULL)
                    => response' = job_script_templates
               /\ response' =
                    {r \in job_script_templates :
                        /\ user_email # NULL => r.owner_email = user_email
                        /\ ~all => r.identifier # NULL
                        /\ search # NULL => (r.name = search \/ r.identifier = search)}]_vars

\* A list answered with a row that has an identifier, while a row of the same
\* owner without identifier was left out.
C22_Witness ==
    /\ last.op = "applications_list"
    /\ last.status = 200
    /\ \E r \in response, o \in applications \ response :
          /\ r.application_identifier # NULL
          /\ o.application_identifier = NULL
          /\ o.application_owner_email = r.application_owner_email


(***************************************************************************)
(* SpecFetch: device logins, each polling the token endpoint. In           *)
(* SpecFetchLive the loop keeps taking its turns.                          *)
(***************************************************************************)
FetchLoopStep ==
    \/ \E answer \in TokenAnswers, duration \in PollDurations :
            Fet(fetch_poll(answer, duration))
    \/ Fet(fetch_timeout)

NextFetch ==
    \/ \E answer \in DeviceCodeAnswers : Fet(fetch_start(answer))
    \/ \E answer \in TokenAnswers, duration \in PollDurations :
            Fet(fetch_poll(answer, duration))
    \/ Fet(fetch_timeout)

SpecFetch == Init /\ [][NextFetch]_vars

SpecFetchLive == Init /\ [][NextFetch]_vars /\ WF_vars(FetchLoopStep)

C24_UploadLogsCompletes ==
    [][\A refresh_response \in RefreshResponses, sentry_dsn \in BOOLEAN :
          (/\ cli'.command = "upload-logs"
           /\ ValidateToken(token_cache.access_token, expired) = "ok"
           /\ run_command("upload-logs", refresh_response, "result", sentry_dsn))
          => /\ ContextKeysRead("upload-logs") \subseteq MainContextKeys
             /\ cli'.outcome = "ran"
             /\ cli'.body = "result"
             /\ cli'.printed = "result"
             /\ cli'.exit_code = 0]_vars


\* C25: in every state reached by completed requests (create, upload,
\* delete-upload, update, delete) handled one after the other, each existing
\* row has application_uploaded set exactly when the store holds a blob under
\* its id.
C25_UploadedIffBlob ==
    \A r \in applications : r.application_uploaded <=> S3Has(s3, r.id)


(***************************************************************************)
(* SpecRace: upload and delete-upload requests for existing applications,  *)
(* handled concurrently.                                                   *)
(***************************************************************************)
NextRace ==
    \/ \E application \in UpdCreateRequests, token_payload \in CrudTokens :
            Race(applications_create(application, token_payload) /\ UNCHANGED inflight)
    \/ \E application_id \in {r.id : r \in applications}, upload_file \in Tarballs,
          token_payload \in CrudTokens :
            Race(applications_upload_put(application_id, upload_file, MAX_UPLOAD_FILE_SIZE,
                                         token_payload))
    \/ \E request \in inflight.requests : Race(applications_upload_update(request))
    \/ \E application_id \in {r.id : r \in applications}, token_payload \in CrudTokens :
            Race(applications_delete_select(application_id, token_payload))
    \/ \E request \in inflight.requests : Race(applications_delete_s3(request))
    \/ \E request \in inflight.requests : Race(applications_delete_update(request))

SpecRace == Init /\ [][NextRace]_vars

\* C26: whenever every upload and delete-upload request received has been
\* answered, each row has application_uploaded set exactly when the store
\* holds a blob under its id, however the steps of the requests interleaved.
C26_QuiescentFlagMatchesBlob ==
    inflight.requests = {}
        => \A r \in applications : r.application_uploaded <=> S3Has(s3, r.id)


\* C27: after a successful login a refresh token in the cache is the one that
\* login was issued: a login with an explicit token leaves none, and a login
\* that fetched its tokens leaves the fetched refresh token or none.
C27_RefreshTokenOfSameLogin ==
    [][/\ \A token \in LoginTokens :
            (/\ cli'.command = "login"
             /\ cli'.outcome = "logged_in"
             /\ login_with_token(token))
            => /\ token_cache'.access_token = token
               /\ token_cache'.refresh_token = NULL
       /\ \A device_response \in DeviceResponses :
            (/\ cli'.command = "login"
             /\ cli'.outcome = "logged_in"
             /\ login_device(device_response))
            => /\ token_cache'.access_token = device_response.access_token
               /\ token_cache'.refresh_token \in {NULL, device_response.refresh_token}]_vars

\* C28: a login that fails (its access token is expired, cannot be decoded
\* or carries no identity data, or no token could be fetched) leaves the
\* access token and the refresh token of the cache as they were.
C28_FailedLoginKeepsCache ==
    [][/\ \A token \in LoginTokens :
            (/\ cli'.command = "login"
             /\ cli'.outcome # "logged_in"
             /\ login_with_token(token))
            => token_cache' = token_cache
       /\ \A device_response \in DeviceResponses :
            (/\ cli'.command = "login"
             /\ cli'.outcome # "logged_in"
             /\ login_device(device_response))
            => token_cache' = token_cache]_vars

\* C29: a command other than login and logout builds the API client only
\* with an access token that passed validation in this run: the cached token
\* or the one the refresh returned, not expired and carrying identity data.
\* When the cached token is expired and no refresh token is cached, or the
\* refresh is refused, or the token to use carries no identity data or is
\* itself expired, the run ends before the API client is built, no command
\* body runs and the cache is as it was.
C29_ClientBuiltWithValidatedToken ==
    [][\A command \in Commands, refresh_response \in RefreshResponses,
          body \in BodyOutcomes, sentry_dsn \in BOOLEAN :
          (cli'.command = command /\ run_command(command, refresh_response, body, sentry_dsn))
          => LET cached == ValidateToken(token_cache.access_token, expired)
                 refreshed == /\ token_cache.access_token # NULL
                              /\ cached = "expired"
                              /\ token_cache.refresh_token # NULL
                              /\ refresh_response.status_code = 200
                 used == IF refreshed THEN refresh_response.access_token
                         ELSE token_cache.access_token
                 valid == /\ token_cache.access_token # NULL
                          /\ (cached = "ok" \/ refreshed)
                          /\ used \in AccessTokens \ expired
             IN  /\ cli'.api_built <=> valid
                 /\ cli'.api_built
                    => /\ cli'.outcome = "ran"
                       /\ cli'.token = used
                       /\ ValidateToken(cli'.token, expired) = "ok"
                       /\ token_cache'.access_token = used
                 /\ ~cli'.api_built
                    => /\ cli'.outcome # "ran"
                       /\ cli'.body = NULL
                       /\ cli'.exit_code = 1
                       /\ token_cache' = token_cache]_vars

\* The refresh was answered with a token that carries no identity data: the
\* run ended without API client and the expired token is still cached.
C29_Witness ==
    /\ cli.command \in Commands
    /\ cli.outcome = "invalid_token"
    /\ cli.refresh_sent \in RefreshTokens
    /\ ~cli.api_built
    /\ token_cache.access_token \in expired
    /\ token_cache.refresh_token = cli.refresh_sent

(***************************************************************************)
(* SpecCreate: create requests of two users whose bodies carry no owner    *)
(* email, the caller's own, or the other user's.                           *)
(***************************************************************************)
CreateTokens ==
    {FullToken(user_email) : user_email \in Emails}
        \cup {[user_email |-> "u1@x", permissions |-> {APPLICATIONS_VIEW}]}

OwnerCreateRequests ==
    [application_name : {"n1"}, application_identifier : {NULL, "a"},
     application_description : {""}, application_owner_email : Emails \cup {NULL},
     application_file : Files, application_config : Configs]

OwnerTemplateRequests == [name : {"n1"}, identifier : {"a"}]

\* POST /applications/ arriving with a body and a token.
create_application(application, token_payload) ==
    /\ applications_create(application, token_payload)
    /\ received' = CreateCall(application, token_payload.user_email)
    /\ UNCHANGED <<tplVars, cliVars, tokVars, fetchVars, raceVars>>

\* JobScriptTemplateService.create called with the owner_email of the caller.
create_template(incoming_data, owner_email) ==
    /\ JobScriptTemplateService_create(incoming_data, owner_email)
    /\ received' = CreateCall(incoming_data, owner_email)
    /\ UNCHANGED <<dbVars, cliVars, tokVars, fetchVars, raceVars>>

NextCreate ==
    \/ \E application \in OwnerCreateRequests, token_payload \in CreateTokens :
            create_application(application, token_payload)
    \/ \E incoming_data \in OwnerTemplateRequests, owner_email \in Emails :
            create_template(incoming_data, owner_email)
    \/ Api(Tick)

SpecCreate == Init /\ [][NextCreate]_vars

\* C30: a create that persists a row stores the email of the caller's identity
\* as the row's owner, whatever owner email the request body carried, and
\* answers with the row as it is stored: for an application the id from the
\* sequence, the body's other fields, application_uploaded false and both
\* timestamps the time of the insert; for a job-script template the fields of
\* the call and the owner_email handed to the service.
C30_CreateOwnerIsCaller ==
    [][/\ app_seq' # app_seq =>
            \E row \in applications' :
                /\ applications' = applications \cup {row}
                /\ row \notin applications
                /\ row.id = app_seq'
                /\ row.application_owner_email = received'.user_email
                /\ \A k \in DOMAIN received'.body \ {"application_owner_email"} :
                        row[k] = received'.body[k]
                /\ row.application_uploaded = FALSE
                /\ row.created_at = now /\ row.updated_at = now
                /\ response' = {row}
                /\ last' = Reply("applications_create", row.id, 201, "")
       /\ tpl_seq' # tpl_seq =>
            \E row \in job_script_templates' :
                /\ job_script_templates' = job_script_templates \cup {row}
                /\ row \notin job_script_templates
                /\ row.id = tpl_seq'
                /\ row.owner_email = received'.user_email
                /\ \A k \in DOMAIN received'.body : row[k] = received'.body[k]
                /\ response' = {row}]_vars

\* An application was created by a caller whose request body named the other
\* user as the owner: the stored row, which is the response, holds the caller.
C30_Witness ==
    /\ last.op = "applications_create"
    /\ last.status = 201
    /\ received.body.application_owner_email \in Emails \ {received.user_email}
    /\ \E row \in applications :
          /\ row.id = last.id
          /\ row.application_owner_email = received.user_email
          /\ response = {row}

====
